---- MODULE Spec2Model ----
(***************************************************************************)
(* Model of pkg/inmemorydb: an in-memory key-value map persisted as an     *)
(* append-only log of "<kind>,<base64(key)>,<base64(value)>\n" lines,      *)
(* written through a bufio.Writer, replayed and compacted on Open.         *)
(* Bytes are integers 0..255; a file, a buffer and a line are sequences    *)
(* of bytes.                                                               *)
(***************************************************************************)
EXTENDS Integers, Sequences, FiniteSets, TLC

VARIABLES
    fs,      \* the two files of the store's directory: fs.path and fs.bak
    db,      \* the DB struct returned by Open (alive = FALSE: no DB in the process)
    closer,  \* position of the Close call between its unlock and its Clear
    procs,   \* the goroutines that call the DB at the same time: procs.call[t]
             \* is the call goroutine t is in and the statement it is at,
             \* procs.log the bytes the mutations of the map since Open must
             \* have put in the log, in the order of the mutations
    repo,    \* the TaskRepo that keeps the tasks in a map under its own
             \* RWMutex: repo.data the map, repo.nextID, repo.writer and
             \* repo.readers the holders of the mutex, repo.call[t] the call
             \* goroutine t is in and the statement it is at
    hist     \* history of the run, read only by the properties:
             \*   calls        calls counted against MaxCalls
             \*   existed      the Open of this session found a file at the path
             \*   mutated      PutObject, DeleteObject, Clear or Shrink changed
             \*                something since the Open of this session
             \*   cleared      Clear ran since the Open and no Shrink succeeded after it
             \*   failed       a call of this session returned an I/O error
             \*   atClose      the map at the moment of the last Close (ok: that Close
             \*                returned nil in a session that is not `cleared`, and
             \*                since then no Open failed, no call changed the map and
             \*                the process did not stop with the DB open)
             \*   first        the map the first Open of the current run of Open/Close
             \*                cycles returned, and the Opens of the run up to
             \*                MaxCycles (ok: every Open and Close of the run
             \*                returned nil, no call changed the map, the file was
             \*                not damaged and the process did not stop with the
             \*                DB open)
             \*   atClear      the map and the bytes written to the log (file, then
             \*                buffer) just before the last Clear of an open DB
             \*                (ok: no Clear before it since the Open or the last
             \*                Shrink, no I/O error before it in the session, and
             \*                since it no call changed the map, no Open or Close
             \*                failed, the file was not damaged and the process
             \*                did not stop with the DB open; reopened: an Open
             \*                has returned a DB since)
             \*   kept         the map at the moment of the last Close that returned
             \*                nil in a session that is not `cleared`, while only
             \*                Opens that returned a DB, Closes and stops of the
             \*                process followed it
             \*   base         the map live in the file before the Open that a stop
             \*                of the process interrupted (see interrupted)
             \*   interrupted  the process stopped in or after the compaction of an
             \*                Open, before any mutation and before Close
             \*   delSess      keys DeleteObject removed with nil in this session and
             \*                no PutObject inserted since
             \*   gone         keys in delSess at a Close that returned nil, until a
             \*                PutObject inserts them
             \*   tampered     the file was damaged
             \*   entry        the entry whose line is the file of the initial state
             \*                (SpecCodec)
             \*   entries      the entries whose lines are the file of the initial
             \*                state (SpecReplay)

vars == <<fs, db, closer, procs, repo, hist>>

(***************************************************************************)
(* Bounds of the model.                                                    *)
(***************************************************************************)
\* entries of the log file a specification starts with (SpecReplay)
MaxEntries == 3

\* calls that change the map (PutObject, DeleteObject, Clear, Shrink) in one
\* run of the model; calls that return ErrClose, ErrAlreadyExists or
\* ErrNotFound, reads, Open and Close are not counted
MaxCalls == 4
\* capacity of the bufio.Writer buffer (bufio's default is 4096), scaled to
\* the model's short lines so that a buffer fills and flushes by itself
BufSize == 24
\* capacity of the bufio.Scanner buffer (bufio.MaxScanTokenSize is 64 * 1024),
\* scaled like BufSize: longer than every line of the short values of the
\* calls, shorter than the line of LongValue.  A line of this length or more
\* ends the scan with ErrTooLong.
MaxScanTokenSize == 48
\* Opens of a run of Open/Close cycles that the history counts (further
\* cycles run, uncounted)
MaxCycles == 3
\* lengths of the keys and values of the entries the codec is run on
MaxKeyLen == 2
MaxValueLen == 3

(***************************************************************************)
(* Bytes of the line format.                                               *)
(***************************************************************************)
Comma == 44
NewLine == 10
CarriageReturn == 13
PadChar == 61
PutToken == <<112, 117, 116>>
DelToken == <<100, 101, 108>>

\* error values
ErrNotFound == "ErrNotFound"
ErrAlreadyExists == "ErrAlreadyExists"
ErrClose == "ErrClose"
ErrBadFormat == "ErrBadFormat"
ErrCorruptInput == "base64.CorruptInputError"
ErrTooLong == "bufio.ErrTooLong"
ErrCannotDecode == "ErrCannotDecode"
ErrIO == "IOError"
ErrFlush == "inmemorydb: unable to flush writer"
ErrFileClose == "inmemorydb: unable to close file"
Nil == "nil"

(***************************************************************************)
(* encoding/base64, StdEncoding.                                           *)
(***************************************************************************)
B64Char(i) ==
    IF i < 26 THEN 65 + i
    ELSE IF i < 52 THEN 97 + (i - 26)
    ELSE IF i < 62 THEN 48 + (i - 52)
    ELSE IF i = 62 THEN 43 ELSE 47

\* index of a character in the alphabet, -1 when it is not in it
B64Index(c) ==
    IF c >= 65 /\ c <= 90 THEN c - 65
    ELSE IF c >= 97 /\ c <= 122 THEN c - 97 + 26
    ELSE IF c >= 48 /\ c <= 57 THEN c - 48 + 52
    ELSE IF c = 43 THEN 62
    ELSE IF c = 47 THEN 63 ELSE -1

RECURSIVE EncodeToString(_)
EncodeToString(src) ==
    IF Len(src) = 0 THEN <<>>
    ELSE IF Len(src) = 1 THEN
        <<B64Char(src[1] \div 4), B64Char((src[1] % 4) * 16), PadChar, PadChar>>
    ELSE IF Len(src) = 2 THEN
        <<B64Char(src[1] \div 4),
          B64Char((src[1] % 4) * 16 + src[2] \div 16),
          B64Char((src[2] % 16) * 4), PadChar>>
    ELSE
        <<B64Char(src[1] \div 4),
          B64Char((src[1] % 4) * 16 + src[2] \div 16),
          B64Char((src[2] % 16) * 4 + src[3] \div 64),
          B64Char(src[3] % 64)>> \o EncodeToString(SubSeq(src, 4, Len(src)))

CorruptInput == [ok |-> FALSE, bytes |-> <<>>]

RECURSIVE StripNewlines(_)
StripNewlines(s) ==
    IF Len(s) = 0 THEN <<>>
    ELSE IF s[1] = NewLine \/ s[1] = CarriageReturn THEN StripNewlines(Tail(s))
    ELSE <<s[1]>> \o StripNewlines(Tail(s))

\* the quanta of four characters; padding is accepted in the last one only,
\* and the unused low bits of a padded quantum are not checked (non-strict)
RECURSIVE DecodeQuanta(_)
DecodeQuanta(s) ==
    IF Len(s) = 0 THEN [ok |-> TRUE, bytes |-> <<>>]
    ELSE IF Len(s) < 4 THEN CorruptInput
    ELSE LET i1 == B64Index(s[1])
             i2 == B64Index(s[2])
             i3 == B64Index(s[3])
             i4 == B64Index(s[4])
         IN  IF i1 < 0 \/ i2 < 0 THEN CorruptInput
             ELSE IF s[3] = PadChar THEN
                 IF s[4] = PadChar /\ Len(s) = 4
                 THEN [ok |-> TRUE, bytes |-> <<i1 * 4 + i2 \div 16>>]
                 ELSE CorruptInput
             ELSE IF i3 < 0 THEN CorruptInput
             ELSE IF s[4] = PadChar THEN
                 IF Len(s) = 4
                 THEN [ok |-> TRUE,
                       bytes |-> <<i1 * 4 + i2 \div 16, (i2 % 16) * 16 + i3 \div 4>>]
                 ELSE CorruptInput
             ELSE IF i4 < 0 THEN CorruptInput
             ELSE LET rest == DecodeQuanta(SubSeq(s, 5, Len(s)))
                  IN  IF rest.ok
                      THEN [ok |-> TRUE,
                            bytes |-> <<i1 * 4 + i2 \div 16,
                                        (i2 % 16) * 16 + i3 \div 4,
                                        (i3 % 4) * 64 + i4>> \o rest.bytes]
                      ELSE CorruptInput

DecodeString(s) == DecodeQuanta(StripNewlines(s))

(***************************************************************************)
(* entry.go                                                                *)
(***************************************************************************)
newEntry(action, key, value) == [action |-> action, key |-> key, value |-> value]

\* toBytes that writes the value as it is, without base64
toBytesRawValue(e) ==
    e.action \o <<Comma>> \o EncodeToString(e.key) \o <<Comma>> \o e.value \o <<NewLine>>

toBytes(e) ==
    e.action \o <<Comma>> \o EncodeToString(e.key) \o <<Comma>>
             \o EncodeToString(e.value) \o <<NewLine>>

\* strings.Split(line, ","): the fields between the commas
RECURSIVE Split(_)
Split(line) ==
    IF \E i \in 1..Len(line) : line[i] = Comma
    THEN LET i == CHOOSE j \in 1..Len(line) :
                    line[j] = Comma /\ \A m \in 1..(j - 1) : line[m] # Comma
         IN  <<SubSeq(line, 1, i - 1)>> \o Split(SubSeq(line, i + 1, Len(line)))
    ELSE <<line>>

NoEntry == newEntry(<<>>, <<>>, <<>>)

\* newEntryFromLine once both fields went through DecodeString
entryFromFields(action, key, value) ==
    IF ~key.ok THEN [err |-> ErrCorruptInput, entry |-> NoEntry]
    ELSE IF ~value.ok THEN [err |-> ErrCorruptInput, entry |-> NoEntry]
    ELSE [err |-> Nil, entry |-> newEntry(action, key.bytes, value.bytes)]

\* newEntryFromLine once the line is split
entryFromElements(elements) ==
    IF Len(elements) # 3 THEN [err |-> ErrBadFormat, entry |-> NoEntry]
    ELSE entryFromFields(elements[1], DecodeString(elements[2]), DecodeString(elements[3]))

newEntryFromLine(line) == entryFromElements(Split(line))

(***************************************************************************)
(* Inputs of the calls.                                                    *)
(***************************************************************************)
Keys == {<<97>>, <<98>>}
\* values: the empty value, and one holding a ',' and a newline
Values == {<<>>, <<44, 10>>}

\* a value whose line does not fit the scanner's buffer: 33 bytes, 44
\* characters in base64
RECURSIVE Repeat(_, _)
Repeat(b, n) == IF n = 0 THEN <<>> ELSE Append(Repeat(b, n - 1), b)

LongValue == Repeat(120, 33)

\* the maps from a set of keys to values
NoData == [k \in {} |-> <<>>]
MapPut(m, k, v) == [x \in (DOMAIN m) \cup {k} |-> IF x = k THEN v ELSE m[x]]
MapDel(m, k) == [x \in (DOMAIN m) \ {k} |-> m[x]]

(***************************************************************************)
(* Files.  A file is absent or holds bytes; the DB holds one handle.       *)
(***************************************************************************)
NoFile == [exists |-> FALSE, bytes |-> <<>>]
EmptyFile == [exists |-> TRUE, bytes |-> <<>>]

(***************************************************************************)
(* bufio.Scanner with bufio.ScanLines, as load uses it.                    *)
(***************************************************************************)
dropCR(line) ==
    IF Len(line) > 0 /\ line[Len(line)] = CarriageReturn
    THEN SubSeq(line, 1, Len(line) - 1) ELSE line

RECURSIVE ScanLines(_)
ScanLines(bytes) ==
    IF Len(bytes) = 0 THEN <<>>
    ELSE IF \E i \in 1..Len(bytes) : bytes[i] = NewLine
    THEN LET i == CHOOSE j \in 1..Len(bytes) :
                    bytes[j] = NewLine /\ \A m \in 1..(j - 1) : bytes[m] # NewLine
         IN  <<dropCR(SubSeq(bytes, 1, i - 1))>> \o ScanLines(SubSeq(bytes, i + 1, Len(bytes)))
    ELSE <<dropCR(bytes)>>

(***************************************************************************)
(* bufio.Writer: Write and Flush on a writer [nil, buf, err] whose file    *)
(* holds `disk`.  canWrite: the write to the file succeeds.                *)
(***************************************************************************)
NilWriter == [nil |-> TRUE, buf |-> <<>>, err |-> FALSE]
NewWriter == [nil |-> FALSE, buf |-> <<>>, err |-> FALSE]

Flush(w, disk, canWrite) ==
    IF w.err THEN [w |-> w, disk |-> disk, err |-> TRUE]
    ELSE IF Len(w.buf) = 0 THEN [w |-> w, disk |-> disk, err |-> FALSE]
    ELSE IF canWrite THEN [w |-> [w EXCEPT !.buf = <<>>], disk |-> disk \o w.buf, err |-> FALSE]
    ELSE [w |-> [w EXCEPT !.err = TRUE], disk |-> disk, err |-> TRUE]

RECURSIVE Write(_, _, _, _)
\* Write after it filled the buffer and flushed it (flushed: what Flush gave)
WriteRest(flushed, rest, canWrite) == Write(flushed.w, flushed.disk, rest, canWrite)

Write(w, disk, p, canWrite) ==
    IF Len(p) > BufSize - Len(w.buf) /\ ~w.err THEN
        IF Len(w.buf) = 0 THEN
            \* large write, empty buffer: written to the file directly
            IF canWrite THEN Write(w, disk \o p, <<>>, canWrite)
            ELSE Write([w EXCEPT !.err = TRUE], disk, p, canWrite)
        ELSE
            WriteRest(Flush([w EXCEPT !.buf = w.buf \o SubSeq(p, 1, BufSize - Len(w.buf))],
                            disk, canWrite),
                      SubSeq(p, BufSize - Len(w.buf) + 1, Len(p)), canWrite)
    ELSE IF w.err THEN [w |-> w, disk |-> disk, err |-> TRUE]
    ELSE [w |-> [w EXCEPT !.buf = w.buf \o p], disk |-> disk, err |-> FALSE]

(***************************************************************************)
(* The DB struct.                                                          *)
(***************************************************************************)
NoDB == [alive |-> FALSE, closed |-> FALSE, data |-> NoData, file |-> "nil",
         writer |-> NilWriter, mutex |-> "free"]

\* db.appendEntry: the entry's line goes to the buffered writer
\* the DB, the files and the error after db.writer.Write gave `written`
appended(d, f, written) ==
    [db |-> [d EXCEPT !.writer = written.w],
     fs |-> [f EXCEPT !.path.bytes = written.disk],
     err |-> IF written.err THEN ErrIO ELSE Nil]

appendEntry(d, f, entry, io) ==
    appended(d, f, Write(d.writer, f.path.bytes, toBytes(entry),
                         d.file = "open" /\ io = "ok"))

\* the loop of load over the scanner's lines
RECURSIVE replay(_, _)
\* replayEntry with a loop that skips an entry of unknown kind
replayEntrySkipsUnknown(parsed, rest, data) ==
    IF parsed.err # Nil THEN [err |-> parsed.err, data |-> data]
    ELSE IF parsed.entry.action = PutToken
         THEN replay(rest, MapPut(data, parsed.entry.key, parsed.entry.value))
    ELSE IF parsed.entry.action = DelToken
         THEN replay(rest, MapDel(data, parsed.entry.key))
    ELSE replay(rest, data)

\* replayEntry whose Put leaves the value of a key the map holds
replayEntryKeepsFirst(parsed, rest, data) ==
    IF parsed.err # Nil THEN [err |-> parsed.err, data |-> data]
    ELSE IF parsed.entry.action = PutToken
         THEN replay(rest, IF parsed.entry.key \in DOMAIN data THEN data
                           ELSE MapPut(data, parsed.entry.key, parsed.entry.value))
    ELSE IF parsed.entry.action = DelToken
         THEN replay(rest, MapDel(data, parsed.entry.key))
    ELSE [err |-> ErrBadFormat, data |-> data]

\* the body of the loop for one line, parsed into `parsed`
replayEntry(parsed, rest, data) ==
    IF parsed.err # Nil THEN [err |-> parsed.err, data |-> data]
    ELSE IF parsed.entry.action = PutToken
         THEN replay(rest, MapPut(data, parsed.entry.key, parsed.entry.value))
    ELSE IF parsed.entry.action = DelToken
         THEN replay(rest, MapDel(data, parsed.entry.key))
    ELSE [err |-> ErrBadFormat, data |-> data]

replay(lines, data) ==
    IF Len(lines) = 0 THEN [err |-> Nil, data |-> data]
    ELSE IF Len(Head(lines)) >= MaxScanTokenSize THEN [err |-> ErrTooLong, data |-> data]
    ELSE replayEntry(newEntryFromLine(Head(lines)), Tail(lines), data)

\* the appends of Shrink's loop over db.data, in the iteration order `order`
RECURSIVE appendAll(_, _, _, _)
\* Shrink's loop that ends after its first appendEntry
appendRestStops(r, rest, io) == r

\* the loop after one appendEntry gave `r`: return its error, or go on
appendRest(r, rest, io) ==
    IF r.err # Nil THEN r ELSE appendAll(r.db, r.fs, rest, io)

\* Shrink's loop that appends no entry to the new file
appendAllSkipped(d, f, order, io) == [db |-> d, fs |-> f, err |-> Nil]

appendAll(d, f, order, io) ==
    IF Len(order) = 0 THEN [db |-> d, fs |-> f, err |-> Nil]
    ELSE appendRest(appendEntry(d, f, newEntry(PutToken, Head(order), d.data[Head(order)]), io),
                    Tail(order), io)

\* the orders in which a range over a map with these keys can run
Orders(S) == {o \in [1..Cardinality(S) -> S] :
                 \A i, j \in 1..Cardinality(S) : i # j => o[i] # o[j]}

\* Shrink that appends the live pairs to the file it has, without the
\* rename and the new file
ShrinkInPlace(d, f, order, fault) ==
    IF d.file # "open" \/ fault = "close"
    THEN [db |-> [d EXCEPT !.file = IF d.file = "nil" THEN "nil" ELSE "closed"],
          fs |-> f, err |-> ErrIO]
    ELSE appendAll(d, f, order, IF fault = "append" THEN "fail" ELSE "ok")

\* Shrink that returns nil when the rename or the creation of the new file
\* fails
ShrinkSilent(d, f, order, fault) ==
    IF d.file # "open" \/ fault = "close"
    THEN [db |-> [d EXCEPT !.file = IF d.file = "nil" THEN "nil" ELSE "closed"],
          fs |-> f, err |-> ErrIO]
    ELSE IF fault = "rename" \/ ~f.path.exists
    THEN [db |-> [d EXCEPT !.file = "closed"], fs |-> f, err |-> Nil]
    ELSE IF fault = "create"
    THEN [db |-> [d EXCEPT !.file = "nil"], fs |-> [path |-> NoFile, bak |-> f.path],
          err |-> Nil]
    ELSE appendAll([d EXCEPT !.file = "open", !.writer = NewWriter],
                   [path |-> EmptyFile, bak |-> f.path], order,
                   IF fault = "append" THEN "fail" ELSE "ok")

\* Shrink on DB d and files f.  fault names the step that fails ("close",
\* "rename", "create", "append") or after which the process stops
\* ("stopRename", "stopCreate"); "none": every step succeeds.
Shrink(d, f, order, fault) ==
    IF d.file # "open" \/ fault = "close"
    THEN [db |-> [d EXCEPT !.file = IF d.file = "nil" THEN "nil" ELSE "closed"],
          fs |-> f, err |-> ErrIO]
    ELSE LET closedDB == [d EXCEPT !.file = "closed"]
             renamed == [path |-> NoFile, bak |-> f.path]
             created == [renamed EXCEPT !.path = EmptyFile]
         IN  IF fault = "rename" \/ ~f.path.exists
             THEN [db |-> closedDB, fs |-> f, err |-> ErrIO]
             ELSE IF fault = "stopRename"
             THEN [db |-> NoDB, fs |-> renamed, err |-> "stopped"]
             ELSE IF fault = "create"
             THEN [db |-> [d EXCEPT !.file = "nil"], fs |-> renamed, err |-> ErrIO]
             ELSE IF fault = "stopCreate"
             THEN [db |-> NoDB, fs |-> created, err |-> "stopped"]
             ELSE appendAll([d EXCEPT !.file = "open", !.writer = NewWriter],
                            created, order, IF fault = "append" THEN "fail" ELSE "ok")

\* load that moves the file to the .bak path before it looks at what the
\* scan loop gave
loadReplayedMoves(d, f, order, fault, r) ==
    IF r.err # Nil \/ fault = "read"
    THEN [db |-> d, fs |-> [path |-> NoFile, bak |-> f.path],
          err |-> IF r.err # Nil THEN r.err ELSE ErrIO]
    ELSE Shrink([d EXCEPT !.file = "open", !.writer = NewWriter, !.data = r.data],
                f, order, fault)

\* load after its scan loop gave `r`: the error, or the compaction
loadReplayed(d, f, order, fault, r) ==
    IF r.err # Nil THEN [db |-> d, fs |-> f, err |-> r.err]
    ELSE IF fault = "read" THEN [db |-> d, fs |-> f, err |-> ErrIO]
    ELSE Shrink([d EXCEPT !.file = "open", !.writer = NewWriter, !.data = r.data],
                f, order, fault)

\* load that runs the compaction on a fresh path too
loadFreshShrinks(d, f, order, fault) ==
    IF ~f.path.exists THEN
        IF fault = "create" THEN [db |-> d, fs |-> f, err |-> ErrIO]
        ELSE Shrink([d EXCEPT !.file = "open", !.writer = NewWriter],
                    [f EXCEPT !.path = EmptyFile], <<>>, "none")
    ELSE IF fault = "open" THEN [db |-> d, fs |-> f, err |-> ErrIO]
    ELSE loadReplayed(d, f, order, fault, replay(ScanLines(f.path.bytes), d.data))

\* load on a fresh DB struct d
load(d, f, order, fault) ==
    IF ~f.path.exists THEN
        IF fault = "create" THEN [db |-> d, fs |-> f, err |-> ErrIO]
        ELSE [db |-> [d EXCEPT !.file = "open", !.writer = NewWriter],
              fs |-> [f EXCEPT !.path = EmptyFile], err |-> Nil]
    ELSE IF fault = "open" THEN [db |-> d, fs |-> f, err |-> ErrIO]
    ELSE loadReplayed(d, f, order, fault, replay(ScanLines(f.path.bytes), d.data))

(***************************************************************************)
(* The public operations as functions of the DB and the files.             *)
(***************************************************************************)
\* PutObject that appends first and inserts only when the append returned nil
insertedIfAppended(r, key, value) ==
    IF r.err # Nil THEN r
    ELSE [r EXCEPT !.db.data = MapPut(r.db.data, key, value)]

putObjectAppendFirst(d, f, key, value, io) ==
    IF d.closed THEN [db |-> d, fs |-> f, err |-> ErrClose]
    ELSE IF key \in DOMAIN d.data THEN [db |-> d, fs |-> f, err |-> ErrAlreadyExists]
    ELSE insertedIfAppended(appendEntry(d, f, newEntry(PutToken, key, value), io),
                            key, value)

\* PutObject that inserts without appending the entry
putObjectNoAppend(d, f, key, value, io) ==
    IF d.closed THEN [db |-> d, fs |-> f, err |-> ErrClose]
    ELSE IF key \in DOMAIN d.data THEN [db |-> d, fs |-> f, err |-> ErrAlreadyExists]
    ELSE [db |-> [d EXCEPT !.data = MapPut(d.data, key, value)], fs |-> f, err |-> Nil]

\* PutObject that overwrites the value of a key the map holds
putObjectUpsert(d, f, key, value, io) ==
    IF d.closed THEN [db |-> d, fs |-> f, err |-> ErrClose]
    ELSE appendEntry([d EXCEPT !.data = MapPut(d.data, key, value)], f,
                     newEntry(PutToken, key, value), io)

putObject(d, f, key, value, io) ==
    IF d.closed THEN [db |-> d, fs |-> f, err |-> ErrClose]
    ELSE IF key \in DOMAIN d.data THEN [db |-> d, fs |-> f, err |-> ErrAlreadyExists]
    ELSE appendEntry([d EXCEPT !.data = MapPut(d.data, key, value)], f,
                     newEntry(PutToken, key, value), io)

\* GetObject without the check of db.closed
getObjectUnchecked(d, key) ==
    IF key \notin DOMAIN d.data THEN [val |-> <<>>, err |-> ErrNotFound]
    ELSE [val |-> d.data[key], err |-> Nil]

getObject(d, key) ==
    IF d.closed THEN [val |-> <<>>, err |-> ErrClose]
    ELSE IF key \notin DOMAIN d.data THEN [val |-> <<>>, err |-> ErrNotFound]
    ELSE [val |-> d.data[key], err |-> Nil]

\* DeleteObject that removes the key without appending the Del entry
deleteObjectNoAppend(d, f, key, io) ==
    IF d.closed THEN [db |-> d, fs |-> f, err |-> ErrClose]
    ELSE IF key \notin DOMAIN d.data THEN [db |-> d, fs |-> f, err |-> ErrNotFound]
    ELSE [db |-> [d EXCEPT !.data = MapDel(d.data, key)], fs |-> f, err |-> Nil]

\* DeleteObject that returns nil for a key the map does not hold
deleteObjectAbsentOk(d, f, key, io) ==
    IF d.closed THEN [db |-> d, fs |-> f, err |-> ErrClose]
    ELSE appendEntry([d EXCEPT !.data = MapDel(d.data, key)], f,
                     newEntry(DelToken, key, <<>>), io)

deleteObject(d, f, key, io) ==
    IF d.closed THEN [db |-> d, fs |-> f, err |-> ErrClose]
    ELSE IF key \notin DOMAIN d.data THEN [db |-> d, fs |-> f, err |-> ErrNotFound]
    ELSE appendEntry([d EXCEPT !.data = MapDel(d.data, key)], f,
                     newEntry(DelToken, key, <<>>), io)

\* Has that takes a key with an empty value for an absent one
hasNonEmpty(d, key) ==
    IF d.closed THEN FALSE ELSE key \in DOMAIN d.data /\ d.data[key] # <<>>

has(d, key) == IF d.closed THEN FALSE ELSE key \in DOMAIN d.data

size(d) == Cardinality(DOMAIN d.data)

\* Clear that also resets the writer, dropping what its buffer holds
clearAndReset(d) == [d EXCEPT !.data = NoData, !.writer.buf = <<>>]

clear(d) == [d EXCEPT !.data = NoData]

\* Close that drops the writer without writing what its buffer holds
closeUnflushed(d, f, fl, errClose) ==
    [db |-> [d EXCEPT !.file = "nil", !.writer = NilWriter, !.closed = TRUE],
     fs |-> f, err |-> IF errClose THEN ErrFileClose ELSE Nil, clear |-> TRUE]

\* Close that returns the flush error before it closes the file
closeReturnsEarly(d, f, fl, errClose) ==
    IF fl.err
    THEN [db |-> [d EXCEPT !.writer = fl.w, !.mutex = "leaked"],
          fs |-> [f EXCEPT !.path.bytes = fl.disk], err |-> ErrFlush, clear |-> FALSE]
    ELSE [db |-> [d EXCEPT !.file = "nil", !.writer = NilWriter, !.closed = TRUE],
          fs |-> [f EXCEPT !.path.bytes = fl.disk],
          err |-> IF errClose THEN ErrFileClose ELSE Nil, clear |-> TRUE]

\* db.Close after its flush gave fl, up to its return statement's value;
\* errClose: file.Close fails.  A failed flush returns with the lock held
\* (mutex "leaked"); `clear`: the call goes on to Clear.
closeFlushed(d, f, fl, errClose) ==
    IF fl.err
    THEN [db |-> [d EXCEPT !.writer = fl.w, !.mutex = "leaked",
                     !.file = IF d.file = "nil" THEN "nil" ELSE "closed"],
          fs |-> [f EXCEPT !.path.bytes = fl.disk], err |-> ErrFlush, clear |-> FALSE]
    ELSE [db |-> [d EXCEPT !.file = "nil", !.writer = NilWriter, !.closed = TRUE],
          fs |-> [f EXCEPT !.path.bytes = fl.disk],
          err |-> IF errClose THEN ErrFileClose ELSE Nil, clear |-> TRUE]

\* Close without the check of db.closed
closeUnchecked(d, f, ioFlush, ioClose) ==
    closeFlushed(d, f, Flush(d.writer, f.path.bytes, d.file = "open" /\ ioFlush = "ok"),
                 d.file # "open" \/ ioClose = "fail")

close(d, f, ioFlush, ioClose) ==
    IF d.closed THEN [db |-> d, fs |-> f, err |-> ErrClose, clear |-> FALSE]
    ELSE closeFlushed(d, f, Flush(d.writer, f.path.bytes, d.file = "open" /\ ioFlush = "ok"),
                      d.file # "open" \/ ioClose = "fail")

\* Open: a DB when load succeeds, no DB when it fails
opened(r) == [db |-> IF r.err = Nil THEN r.db ELSE NoDB, fs |-> r.fs, err |-> r.err]

open(f, order, fault) == opened(load([NoDB EXCEPT !.alive = TRUE], f, order, fault))

\* the map a replay of file content `bytes` gives (ok: the replay succeeds)
ReplayResult(r) == [ok |-> r.err = Nil, data |-> r.data]

Replayed(bytes) == ReplayResult(replay(ScanLines(bytes), NoData))

NoBase == [ok |-> FALSE, data |-> NoData]

NoFirst == [ok |-> FALSE, data |-> NoData, opens |-> 0]

NoClear == [ok |-> FALSE, reopened |-> FALSE, data |-> NoData, log |-> <<>>]

\* the goroutines and the call of a goroutine: op "put", "del" or "close"
\* with its arguments, pc the statement it is at, err what it returned
\* (at pc "done"); fits: when the call was made the DB was open and the key
\* was absent (put) or present (del); wrote: the call appended its entry
Goroutines == {1, 2, 3}

Idle == [op |-> "none", key |-> <<>>, value |-> <<>>, pc |-> "idle", err |-> Nil,
         fits |-> FALSE, wrote |-> FALSE]

NoProcs == [call |-> [t \in Goroutines |-> Idle], log |-> <<>>]

\* a goroutine outside the calls of the map TaskRepo, and the TaskRepo that
\* NewTaskRepo() returns
MemIdle == [op |-> "none",
            task |-> [ID |-> 0, Title |-> <<>>, Description |-> <<>>, Done |-> FALSE],
            pc |-> "idle", err |-> Nil, fits |-> FALSE]

NoRepo == [data |-> [id \in {} |-> MemIdle.task], nextID |-> 0,
           writer |-> FALSE, readers |-> 0,
           call |-> [t \in Goroutines |-> MemIdle]]

(***************************************************************************)
(* Initial state: an empty directory, no DB.                               *)
(***************************************************************************)
Init ==
    /\ fs = [path |-> NoFile, bak |-> NoFile]
    /\ db = NoDB
    /\ closer = "idle"
    /\ procs = NoProcs
    /\ repo = NoRepo
    /\ hist = [calls |-> 0, existed |-> FALSE, mutated |-> FALSE,
               cleared |-> FALSE, failed |-> FALSE, atClose |-> NoBase, kept |-> NoBase, base |-> NoBase,
               first |-> NoFirst, atClear |-> NoClear, entry |-> NoEntry,
               entries |-> <<>>,
               interrupted |-> FALSE, gone |-> {}, delSess |-> {}, tampered |-> FALSE]

\* a call can take the lock
CanLock == db.alive /\ db.mutex = "free"

(***************************************************************************)
(* Open: a process without an open DB opens the path.                      *)
(***************************************************************************)
CanOpen == ~db.alive \/ (db.closed /\ closer = "idle")

\* the step of an Open that returned r
Returned(r) ==
    /\ fs' = r.fs
    /\ db' = r.db
    /\ closer' = "idle"
    /\ hist' = IF r.err = Nil
               THEN [hist EXCEPT !.existed = fs.path.exists, !.mutated = FALSE,
                        !.cleared = FALSE, !.failed = FALSE, !.delSess = {},
                        !.atClear = [@ EXCEPT !.reopened = @ \/ hist.atClear.ok],
                        !.first = IF hist.first.ok
                                  THEN [@ EXCEPT !.opens = IF @ < MaxCycles THEN @ + 1 ELSE @]
                                  ELSE [ok |-> TRUE, data |-> r.db.data, opens |-> 1],
                        !.base = IF hist.interrupted THEN hist.base
                                 ELSE [ok |-> TRUE, data |-> r.db.data]]
               ELSE [hist EXCEPT !.atClose = NoBase, !.kept = NoBase, !.first = NoFirst, !.atClear = NoClear, !.base = NoBase,
                        !.interrupted = FALSE, !.delSess = {}]

Open(order, fault) ==
    /\ CanOpen
    /\ Returned(open(fs, order, fault))
    /\ UNCHANGED <<procs, repo>>

\* the process stops inside the compaction that Open runs
OpenStopped(order, point) ==
    /\ CanOpen
    /\ fs.path.exists
    /\ Replayed(fs.path.bytes).ok
    /\ fs' = load([NoDB EXCEPT !.alive = TRUE], fs, order, point).fs
    /\ db' = NoDB
    /\ hist' = [hist EXCEPT !.atClose = NoBase, !.first = NoFirst, !.atClear = NoClear, !.delSess = {}, !.interrupted = TRUE,
                   !.base = IF hist.interrupted THEN hist.base
                            ELSE Replayed(fs.path.bytes)]
    /\ closer' = "idle"
    /\ UNCHANGED <<procs, repo>>

\* the process stops (crash, power loss, exit): the DB and its buffer are gone
Crash ==
    /\ db.alive
    /\ db' = NoDB
    /\ closer' = "idle"
    /\ hist' = IF db.closed /\ closer = "idle"
               THEN [hist EXCEPT !.delSess = {}]
               ELSE [hist EXCEPT !.delSess = {}, !.atClose = NoBase, !.first = NoFirst, !.atClear = NoClear,
                        !.interrupted = ~hist.mutated /\ hist.base.ok,
                        !.base = IF hist.mutated THEN NoBase ELSE hist.base]
    /\ UNCHANGED <<fs, procs, repo>>

(***************************************************************************)
(* The calls on the DB.  Each holds the lock from its first statement to   *)
(* its return, so each is one step; Close is two (see CloseClear).         *)
(***************************************************************************)
\* the step of a PutObject that returned r
Put(key, r) ==
    /\ db' = r.db
    /\ fs' = r.fs
    /\ hist' = IF r.err \in {ErrClose, ErrAlreadyExists} THEN hist
               ELSE [hist EXCEPT !.calls = @ + 1, !.mutated = TRUE, !.atClose = NoBase, !.kept = NoBase, !.first = NoFirst, !.atClear = NoClear,
                        !.base = NoBase, !.interrupted = FALSE,
                        !.failed = @ \/ r.err # Nil,
                        !.gone = @ \ {key}, !.delSess = @ \ {key}]
    /\ UNCHANGED <<closer, procs, repo>>

PutObject(key, value, io) ==
    /\ CanLock
    /\ db.closed \/ key \in DOMAIN db.data \/ hist.calls < MaxCalls
    /\ Put(key, putObject(db, fs, key, value, io))

\* GetObject, Has and Size take the read lock, read and return: no field of
\* the DB and no file changes.  What they return is getObject, has and size.
GetObject(key) ==
    /\ CanLock
    /\ getObject(db, key).err \in {Nil, ErrNotFound, ErrClose}
    /\ UNCHANGED vars

\* the step of a DeleteObject that returned r
Deleted(key, r) ==
    /\ db' = r.db
    /\ fs' = r.fs
    /\ hist' = IF r.err \in {ErrClose, ErrNotFound} THEN hist
               ELSE [hist EXCEPT !.calls = @ + 1, !.mutated = TRUE, !.atClose = NoBase, !.kept = NoBase, !.first = NoFirst, !.atClear = NoClear,
                        !.base = NoBase, !.interrupted = FALSE,
                        !.failed = @ \/ r.err # Nil,
                        !.delSess = IF r.err = Nil THEN @ \cup {key} ELSE @]
    /\ UNCHANGED <<closer, procs, repo>>

DeleteObject(key, io) ==
    /\ CanLock
    /\ db.closed \/ key \notin DOMAIN db.data \/ hist.calls < MaxCalls
    /\ Deleted(key, deleteObject(db, fs, key, io))

Has(key) ==
    /\ CanLock
    /\ has(db, key) \in BOOLEAN
    /\ UNCHANGED vars

Size ==
    /\ CanLock
    /\ size(db) >= 0
    /\ UNCHANGED vars

Clear ==
    /\ CanLock
    /\ db.closed \/ hist.calls < MaxCalls
    /\ db' = clear(db)
    /\ hist' = IF db.closed THEN hist
               ELSE [hist EXCEPT !.calls = @ + 1, !.mutated = TRUE, !.cleared = TRUE,
                        !.atClear = IF ~hist.cleared /\ ~hist.failed
                                    THEN [ok |-> TRUE, reopened |-> FALSE, data |-> db.data,
                                          log |-> fs.path.bytes \o db.writer.buf]
                                    ELSE NoClear,
                        !.atClose = NoBase, !.kept = NoBase, !.first = NoFirst,
                        !.base = NoBase, !.interrupted = FALSE]
    /\ UNCHANGED <<fs, closer, procs, repo>>

\* the step of a Close that came to its Unlock or to an early return with r
Unlocked(r) ==
    /\ db' = r.db
    /\ fs' = r.fs
    /\ closer' = IF ~r.clear THEN closer
                 ELSE IF r.err = Nil THEN "clear" ELSE "clearErr"
    /\ hist' = IF db.closed THEN hist
               ELSE IF ~r.clear
               THEN [hist EXCEPT !.atClose = NoBase, !.kept = NoBase, !.first = NoFirst, !.atClear = NoClear, !.base = NoBase,
                        !.interrupted = FALSE]
               ELSE [hist EXCEPT
                        !.atClose = [ok |-> r.err = Nil /\ ~hist.cleared, data |-> db.data],
                        !.kept = IF r.err = Nil /\ ~hist.cleared
                                 THEN [ok |-> TRUE, data |-> db.data] ELSE NoBase,
                        !.first = IF r.err = Nil THEN @ ELSE NoFirst,
                        !.atClear = IF r.err = Nil THEN @ ELSE NoClear,
                        !.base = NoBase, !.interrupted = FALSE,
                        !.gone = IF r.err = Nil THEN @ \cup hist.delSess ELSE @]
    /\ UNCHANGED <<procs, repo>>

\* Close up to its Unlock: the closed check, the flush, the file close, the
\* fields.  A failed flush returns with the lock still held.
Close(ioFlush, ioClose) ==
    /\ CanLock
    /\ Unlocked(close(db, fs, ioFlush, ioClose))

\* Close after its Unlock: Clear, then the return
CloseClear ==
    /\ closer # "idle"
    /\ CanLock
    /\ db' = clear(db)
    /\ closer' = "idle"
    /\ UNCHANGED <<fs, procs, hist, repo>>

\* the step of a Shrink that returned r
Shrunk(r) ==
    /\ db' = r.db
    /\ fs' = r.fs
    /\ hist' = [hist EXCEPT !.calls = @ + 1, !.mutated = TRUE, !.atClose = NoBase, !.kept = NoBase, !.first = NoFirst, !.atClear = NoClear,
                   !.base = NoBase, !.interrupted = FALSE,
                   !.failed = @ \/ r.err # Nil,
                   !.cleared = IF r.err = Nil THEN FALSE ELSE @]
    /\ UNCHANGED <<closer, procs, repo>>

\* a call of the exported Shrink on the DB
ShrinkCall(order, fault) ==
    /\ CanLock
    /\ hist.calls < MaxCalls
    /\ Shrunk(Shrink(db, fs, order, fault))

(***************************************************************************)
(* The file is damaged while no DB has it open: one line that is not an    *)
(* entry is put at a line boundary.                                        *)
(***************************************************************************)
TwoFieldLine == <<112, 117, 116, 44, 89, 81, 61, 61>>
EmptyLine == <<>>
UnknownKindLine == <<115, 101, 116, 44, 89, 81, 61, 61, 44>>
BadKeyLine == <<112, 117, 116, 44, 89, 44>>
UnknownKindBadKeyLine == <<115, 101, 116, 44, 89, 44>>
BadLines == {TwoFieldLine, EmptyLine, UnknownKindLine, BadKeyLine, UnknownKindBadKeyLine}

\* the offsets at which a line starts (the end of the file included)
LineStarts(bytes) ==
    {0} \cup {i \in 1..Len(bytes) : bytes[i] = NewLine}

Corrupt(line, at) ==
    /\ ~db.alive \/ (db.closed /\ closer = "idle")
    /\ fs.path.exists
    /\ ~hist.tampered
    /\ Replayed(fs.path.bytes).ok
    /\ fs' = [fs EXCEPT !.path.bytes =
                  SubSeq(@, 1, at) \o line \o <<NewLine>> \o SubSeq(@, at + 1, Len(@))]
    /\ hist' = [hist EXCEPT !.tampered = TRUE, !.atClose = NoBase, !.kept = NoBase, !.first = NoFirst, !.atClear = NoClear, !.base = NoBase,
                   !.interrupted = FALSE, !.gone = {}]
    /\ UNCHANGED <<db, closer, procs, repo>>

(***************************************************************************)
(* The caller writes into a value slice it shares with the DB.  PutObject  *)
(* stores the slice it is passed and GetObject returns the slice of the    *)
(* map, so a slice the caller holds for a key of an open DB has the        *)
(* backing array of db.data[key]: writing byte b at index i of it writes   *)
(* db.data[key][i].  No method of the DB is called and no lock is taken.   *)
(***************************************************************************)
WriteSlice(key, i, b) ==
    /\ db.alive
    /\ ~db.closed
    /\ key \in DOMAIN db.data
    /\ i \in 1..Len(db.data[key])
    /\ b # db.data[key][i]
    /\ db' = [db EXCEPT !.data[key][i] = b]
    /\ UNCHANGED <<fs, closer, procs, hist, repo>>

(***************************************************************************)
(* TaskRepo over the DB (internal/repository): a task is stored under the  *)
(* decimal text of its ID, as the bytes of its encoding.                   *)
(***************************************************************************)
\* strconv.FormatInt(id, 10) for id >= 0
RECURSIVE FormatInt(_)
FormatInt(id) ==
    IF id < 10 THEN <<48 + id>>
    ELSE FormatInt(id \div 10) \o <<48 + (id % 10)>>

NewTask(id, title, description, done) ==
    [ID |-> id, Title |-> title, Description |-> description, Done |-> done]

NoTask == NewTask(0, <<>>, <<>>, FALSE)

\* the encoder and decoder TaskRepo uses (encoding/gob), as a layout of the
\* four fields: the ID, each string after its length, the flag
gobEncode(task) ==
    <<task.ID, Len(task.Title)>> \o task.Title
        \o <<Len(task.Description)>> \o task.Description
        \o <<IF task.Done THEN 1 ELSE 0>>

gobDecode(b) ==
    NewTask(b[1],
            SubSeq(b, 3, 2 + b[2]),
            SubSeq(b, 4 + b[2], 3 + b[2] + b[3 + b[2]]),
            b[4 + b[2] + b[3 + b[2]]] = 1)

RepoErrNotFound == "resource not found"

\* TaskRepo.Get after GetObject gave `got`
taskGot(got) ==
    IF got.err = ErrNotFound THEN [task |-> NoTask, err |-> RepoErrNotFound]
    ELSE IF got.err # Nil THEN [task |-> NoTask, err |-> got.err]
    ELSE [task |-> gobDecode(got.val), err |-> Nil]

taskRepoGet(d, id) == taskGot(getObject(d, FormatInt(id)))

taskRepoInsert(d, f, task, io) ==
    putObject(d, f, FormatInt(task.ID), gobEncode(task), io)

taskRepoUpdate(d, f, task, io) ==
    putObject(d, f, FormatInt(task.ID), gobEncode(task), io)

\* TaskRepo.Delete after DeleteObject gave r
taskDeleted(r) ==
    IF r.err = ErrNotFound THEN [r EXCEPT !.err = RepoErrNotFound] ELSE r

taskRepoDelete(d, f, id, io) == taskDeleted(deleteObject(d, f, FormatInt(id), io))

\* the tasks of the calls: for each ID a task as first inserted and the task
\* with title, description and done flag changed
TaskIDs == {1, 2}
Tasks ==
    {NewTask(id, <<79>>, <<>>, FALSE) : id \in TaskIDs}
        \cup {NewTask(id, <<85>>, <<100>>, TRUE) : id \in TaskIDs}

Insert(task, io) ==
    /\ CanLock
    /\ db.closed \/ FormatInt(task.ID) \in DOMAIN db.data \/ hist.calls < MaxCalls
    /\ Put(FormatInt(task.ID), taskRepoInsert(db, fs, task, io))

Update(task, io) ==
    /\ CanLock
    /\ db.closed \/ FormatInt(task.ID) \in DOMAIN db.data \/ hist.calls < MaxCalls
    /\ Put(FormatInt(task.ID), taskRepoUpdate(db, fs, task, io))

Get(id) ==
    /\ CanLock
    /\ taskRepoGet(db, id).err \in {Nil, RepoErrNotFound, ErrClose}
    /\ UNCHANGED vars

Delete(id, io) ==
    /\ CanLock
    /\ db.closed \/ FormatInt(id) \notin DOMAIN db.data \/ hist.calls < MaxCalls
    /\ Deleted(FormatInt(id), deleteObject(db, fs, FormatInt(id), io))

(***************************************************************************)
(* Goroutines call PutObject, DeleteObject and Close of one DB at the same *)
(* time.  A call is a sequence of steps: Lock, the checks, the update of   *)
(* the map, the append, the deferred Unlock; Close is Lock, the check, the *)
(* flush with the close of the file and the fields, Unlock, then Clear.    *)
(* The lock is db.mutex: "free", or "held" by the goroutine whose pc is    *)
(* between its Lock and its Unlock.  A round of calls ends when every call *)
(* made has returned.                                                      *)
(***************************************************************************)
\* goroutine t calls op(key, value) on the DB; the goroutines of a round are
\* numbered in the order of their calls
Go(t, op, key, value) ==
    /\ db.alive
    /\ procs.call[t].pc = "idle"
    /\ \A u \in 1..(t - 1) : procs.call[u].pc # "idle"
    /\ hist.calls < MaxCalls
    /\ procs' = [procs EXCEPT !.call[t] =
                    [op |-> op, key |-> key, value |-> value, pc |-> "lock", err |-> Nil,
                     fits |-> /\ ~db.closed
                              /\ op = "put" => key \notin DOMAIN db.data
                              /\ op = "del" => key \in DOMAIN db.data,
                     wrote |-> FALSE]]
    /\ hist' = [hist EXCEPT !.calls = @ + 1]
    /\ UNCHANGED <<fs, db, closer, repo>>

\* Lock that does not wait
LockBarging(t) ==
    /\ procs.call[t].pc \in {"lock", "clearLock"}
    /\ db' = [db EXCEPT !.mutex = "held"]
    /\ procs' = [procs EXCEPT !.call[t].pc = IF @ = "lock" THEN "check" ELSE "clear"]
    /\ UNCHANGED <<fs, closer, hist, repo>>

\* db.mutex.Lock(): waits until the lock is free
Lock(t) ==
    /\ procs.call[t].pc \in {"lock", "clearLock"}
    /\ db.mutex = "free"
    /\ db' = [db EXCEPT !.mutex = "held"]
    /\ procs' = [procs EXCEPT !.call[t].pc = IF @ = "lock" THEN "check" ELSE "clear"]
    /\ UNCHANGED <<fs, closer, hist, repo>>

\* checks that do not look for the key in the map
checkedClosedOnly(d, c) == IF d.closed THEN ErrClose ELSE "go"

\* checks that do not look at db.closed
checkedPresenceOnly(d, c) ==
    IF c.op = "put" /\ c.key \in DOMAIN d.data THEN ErrAlreadyExists
    ELSE IF c.op = "del" /\ c.key \notin DOMAIN d.data THEN ErrNotFound
    ELSE "go"

\* the outcome of the checks of call c on DB d: the error to return, or
\* "go" to go on
checked(d, c) ==
    IF d.closed THEN ErrClose
    ELSE IF c.op = "put" /\ c.key \in DOMAIN d.data THEN ErrAlreadyExists
    ELSE IF c.op = "del" /\ c.key \notin DOMAIN d.data THEN ErrNotFound
    ELSE "go"

\* the checks at the head of PutObject, DeleteObject and Close
Check(t) ==
    /\ procs.call[t].pc = "check"
    /\ procs' = [procs EXCEPT
                    !.call[t].err = IF checked(db, procs.call[t]) = "go" THEN @
                                    ELSE checked(db, procs.call[t]),
                    !.call[t].pc = IF checked(db, procs.call[t]) # "go" THEN "unlock"
                                   ELSE IF procs.call[t].op = "close" THEN "flush"
                                   ELSE "update"]
    /\ UNCHANGED <<fs, db, closer, hist, repo>>

\* the entry of a mutating call
entryOf(c) ==
    IF c.op = "put" THEN newEntry(PutToken, c.key, c.value)
    ELSE newEntry(DelToken, c.key, <<>>)

\* db.data[key] = value, or delete(db.data, key)
Mutate(t) ==
    /\ procs.call[t].pc = "update"
    /\ db' = [db EXCEPT !.data = IF procs.call[t].op = "put"
                                  THEN MapPut(@, procs.call[t].key, procs.call[t].value)
                                  ELSE MapDel(@, procs.call[t].key)]
    /\ procs' = [procs EXCEPT !.call[t].pc = "append",
                              !.log = @ \o toBytes(entryOf(procs.call[t]))]
    /\ hist' = [hist EXCEPT !.mutated = TRUE, !.atClose = NoBase, !.kept = NoBase, !.first = NoFirst,
                            !.atClear = NoClear, !.base = NoBase, !.interrupted = FALSE]
    /\ UNCHANGED <<fs, closer, repo>>

\* the step of a call whose appendEntry gave r
Appended(t, r) ==
    /\ db' = r.db
    /\ fs' = r.fs
    /\ procs' = [procs EXCEPT !.call[t].pc = "unlock", !.call[t].err = r.err,
                              !.call[t].wrote = TRUE]
    /\ UNCHANGED <<closer, hist, repo>>

\* return db.appendEntry(newEntry(...))
AppendStep(t) ==
    /\ procs.call[t].pc = "append"
    /\ Appended(t, appendEntry(db, fs, entryOf(procs.call[t]), "ok"))

\* the step of a Close whose flush, close of the file and assignments gave r
Flushed(t, r) ==
    /\ db' = r.db
    /\ fs' = r.fs
    /\ procs' = [procs EXCEPT !.call[t].pc = IF r.clear THEN "closeUnlock" ELSE "done",
                              !.call[t].err = r.err]
    /\ hist' = [hist EXCEPT !.atClose = [ok |-> r.err = Nil /\ ~hist.cleared,
                                         data |-> db.data],
                            !.kept = IF r.err = Nil /\ ~hist.cleared
                                     THEN [ok |-> TRUE, data |-> db.data] ELSE NoBase,
                            !.first = NoFirst, !.atClear = NoClear,
                            !.base = NoBase, !.interrupted = FALSE]
    /\ UNCHANGED <<closer, repo>>

\* Close from its Flush to the assignment of db.closed
FlushStep(t) ==
    /\ procs.call[t].pc = "flush"
    /\ Flushed(t, closeFlushed(db, fs, Flush(db.writer, fs.path.bytes, db.file = "open"),
                               db.file # "open"))

\* db.mutex.Unlock(): the deferred one of PutObject, DeleteObject and
\* Clear, the one of Close on a closed DB, and the one of Close before its
\* Clear
Unlock(t) ==
    /\ procs.call[t].pc \in {"unlock", "closeUnlock"}
    /\ db' = [db EXCEPT !.mutex = "free"]
    /\ procs' = [procs EXCEPT !.call[t].pc = IF @ = "unlock" THEN "done" ELSE "clearLock"]
    /\ UNCHANGED <<fs, closer, hist, repo>>

\* the Clear that Close calls: db.data = make(...)
ClearStep(t) ==
    /\ procs.call[t].pc = "clear"
    /\ db' = clear(db)
    /\ procs' = [procs EXCEPT !.call[t].pc = "unlock"]
    /\ UNCHANGED <<fs, closer, hist, repo>>

\* every call made has returned: the goroutines are free for the next calls
Collect ==
    /\ \E t \in Goroutines : procs.call[t].pc = "done"
    /\ \A t \in Goroutines : procs.call[t].pc \in {"idle", "done"}
    /\ procs' = [procs EXCEPT !.call = NoProcs.call]
    /\ UNCHANGED <<fs, db, closer, hist, repo>>

\* Open while no call is in progress; the log starts with what Open's
\* compaction wrote
OpenIdle(order) ==
    /\ CanOpen
    /\ \A t \in Goroutines : procs.call[t].pc = "idle"
    /\ Returned(open(fs, order, "none"))
    /\ procs' = [procs EXCEPT !.log = open(fs, order, "none").fs.path.bytes
                                          \o open(fs, order, "none").db.writer.buf]
    /\ UNCHANGED repo

(***************************************************************************)
(* The TaskRepo that keeps the tasks in a map under a sync.RWMutex         *)
(* (internal/repository, first file).  Goroutines call Insert, Update,     *)
(* Delete and Get at the same time; a call is a sequence of steps: RLock,  *)
(* the lookup with RUnlock, Lock, the write with Unlock.  repo.writer: a   *)
(* goroutine holds the write lock; repo.readers: the goroutines holding    *)
(* the read lock.  A round of calls ends when every call made has          *)
(* returned.                                                               *)
(***************************************************************************)
ErrTaskNotFound == "task not found"

\* the tasks of the Update calls and the task of the Insert calls
MemIDs == {0, 1}
MemUpdates == {NewTask(id, <<85>>, <<100>>, TRUE) : id \in MemIDs}
MemNew == NewTask(0, <<79>>, <<>>, FALSE)

\* goroutine t calls op with `task` (Delete and Get: with task.ID); the
\* goroutines of a round are numbered in the order of their calls
MemGo(t, op, task) ==
    /\ repo.call[t].pc = "idle"
    /\ \A u \in 1..(t - 1) : repo.call[u].pc # "idle"
    /\ hist.calls < MaxCalls
    /\ repo' = [repo EXCEPT !.call[t] =
                   [op |-> op, task |-> task,
                    pc |-> IF op = "insert" THEN "lock" ELSE "rlock",
                    err |-> Nil, fits |-> task.ID \in DOMAIN repo.data]]
    /\ hist' = [hist EXCEPT !.calls = @ + 1]
    /\ UNCHANGED <<fs, db, closer, procs>>

\* r.mutex.RLock(): waits while a goroutine holds the write lock
MemRLock(t) ==
    /\ repo.call[t].pc = "rlock"
    /\ ~repo.writer
    /\ repo' = [repo EXCEPT !.readers = @ + 1, !.call[t].pc = "check"]
    /\ UNCHANGED <<fs, db, closer, procs, hist>>

\* the lookup of Get, Update and Delete under the read lock, and RUnlock:
\* ErrTaskNotFound for an absent ID; Get returns, Update and Delete go on
\* to Lock
MemCheck(t) ==
    /\ repo.call[t].pc = "check"
    /\ repo' = [repo EXCEPT
                   !.readers = @ - 1,
                   !.call[t].err = IF repo.call[t].task.ID \in DOMAIN repo.data
                                   THEN Nil ELSE ErrTaskNotFound,
                   !.call[t].pc = IF repo.call[t].task.ID \notin DOMAIN repo.data
                                     \/ repo.call[t].op = "get"
                                  THEN "done" ELSE "lock"]
    /\ UNCHANGED <<fs, db, closer, procs, hist>>

\* r.mutex.Lock(): waits while a goroutine holds the write or the read lock
MemLock(t) ==
    /\ repo.call[t].pc = "lock"
    /\ ~repo.writer
    /\ repo.readers = 0
    /\ repo' = [repo EXCEPT !.writer = TRUE, !.call[t].pc = "write"]
    /\ UNCHANGED <<fs, db, closer, procs, hist>>

\* the map after the write of call c: Insert stores the task under nextID,
\* Update stores the task under its ID, Delete removes the ID
memWritten(r, c) ==
    IF c.op = "insert"
    THEN [id \in (DOMAIN r.data) \cup {r.nextID} |->
              IF id = r.nextID THEN [c.task EXCEPT !.ID = r.nextID] ELSE r.data[id]]
    ELSE IF c.op = "update"
    THEN [id \in (DOMAIN r.data) \cup {c.task.ID} |->
              IF id = c.task.ID THEN c.task ELSE r.data[id]]
    ELSE [id \in (DOMAIN r.data) \ {c.task.ID} |-> r.data[id]]

\* the write under the write lock, Unlock and the return of nil
MemWrite(t) ==
    /\ repo.call[t].pc = "write"
    /\ repo' = [repo EXCEPT
                   !.data = memWritten(repo, repo.call[t]),
                   !.nextID = IF repo.call[t].op = "insert" THEN @ + 1 ELSE @,
                   !.writer = FALSE,
                   !.call[t].pc = "done"]
    /\ UNCHANGED <<fs, db, closer, procs, hist>>

\* every call made has returned: the goroutines are free for the next calls
MemCollect ==
    /\ \E t \in Goroutines : repo.call[t].pc = "done"
    /\ \A t \in Goroutines : repo.call[t].pc \in {"idle", "done"}
    /\ repo' = [repo EXCEPT !.call = NoRepo.call]
    /\ UNCHANGED <<fs, db, closer, procs, hist>>

\* what Get(id) returns on a TaskRepo with map `data`
memGet(data, id) ==
    IF id \in DOMAIN data THEN [task |-> data[id], err |-> Nil]
    ELSE [task |-> NoTask, err |-> ErrTaskNotFound]

(***************************************************************************)
(* The specifications.  Calls(F, IO): the calls on the store, with the     *)
(* steps in F failing and the file writes in IO.                           *)
(***************************************************************************)
OpenFaults == {"none", "open", "read", "close", "rename", "create", "append"}
ShrinkFaults == {"none", "close", "rename", "create", "append"}

Calls(F, IO) ==
    \/ \E order \in Orders(DOMAIN Replayed(fs.path.bytes).data),
          fault \in OpenFaults \cap F : Open(order, fault)
    \/ \E key \in Keys, value \in Values, io \in IO : PutObject(key, value, io)
    \/ \E key \in Keys : GetObject(key)
    \/ \E key \in Keys, io \in IO : DeleteObject(key, io)
    \/ \E key \in Keys : Has(key)
    \/ Size
    \/ Clear
    \/ \E ioFlush \in IO, ioClose \in IO : Close(ioFlush, ioClose)
    \/ CloseClear
    \/ \E order \in Orders(DOMAIN db.data), fault \in ShrinkFaults \cap F :
           ShrinkCall(order, fault)

\* every file operation succeeds and the process runs until it closes the DB
Next == Calls({"none"}, {"ok"})

Spec == Init /\ [][Next]_vars

\* the process can stop at any point, also inside the compaction of Open
NextCrash ==
    \/ Calls({"none"}, {"ok"})
    \/ Crash
    \/ \E order \in Orders(DOMAIN Replayed(fs.path.bytes).data),
          point \in {"stopRename", "stopCreate"} : OpenStopped(order, point)

SpecCrash == Init /\ [][NextCrash]_vars

\* the log file can be damaged between a Close and the next Open
NextCorrupt ==
    \/ Calls({"none"}, {"ok"})
    \/ \E line \in BadLines, at \in LineStarts(fs.path.bytes) : Corrupt(line, at)

SpecCorrupt == Init /\ [][NextCorrupt]_vars

\* the caller keeps the slices it passed to PutObject and got from GetObject
\* and writes into them
NextAlias ==
    \/ Calls({"none"}, {"ok"})
    \/ \E key \in Keys, i \in 1..2, b \in {NewLine} : WriteSlice(key, i, b)

SpecAlias == Init /\ [][NextAlias]_vars

\* the codec: the file of the initial state is the line toBytes gives for an
\* entry of any kind, key and value; Open decodes it
RECURSIVE SeqsUpTo(_, _)
SeqsUpTo(S, n) ==
    IF n = 0 THEN {<<>>}
    ELSE SeqsUpTo(S, n - 1) \cup {Append(q, x) : q \in SeqsUpTo(S, n - 1), x \in S}

CodecKeys == SeqsUpTo({97, Comma}, MaxKeyLen)
CodecValues == SeqsUpTo({Comma, NewLine, 255}, MaxValueLen)

InitCodec ==
    /\ db = NoDB
    /\ closer = "idle"
    /\ procs = NoProcs
    /\ repo = NoRepo
    /\ \E action \in {PutToken, DelToken}, key \in CodecKeys, value \in CodecValues :
           /\ fs = [path |-> [exists |-> TRUE, bytes |-> toBytes(newEntry(action, key, value))],
                    bak |-> NoFile]
           /\ hist = [calls |-> 0, existed |-> FALSE, mutated |-> FALSE,
                      cleared |-> FALSE, failed |-> FALSE, atClose |-> NoBase, kept |-> NoBase,
                      base |-> NoBase, first |-> NoFirst, atClear |-> NoClear,
                      entry |-> newEntry(action, key, value), entries |-> <<>>,
                      interrupted |-> FALSE, gone |-> {}, delSess |-> {},
                      tampered |-> FALSE]

NextCodec ==
    \/ \E order \in Orders(DOMAIN Replayed(fs.path.bytes).data) : Open(order, "none")
    \/ \E key \in CodecKeys : GetObject(key)
    \/ Close("ok", "ok")
    \/ CloseClear

SpecCodec == InitCodec /\ [][NextCodec]_vars

\* the replay: the file of the initial state is a log of up to MaxEntries
\* entries of any kind, key and value, in any order; Open replays it
LogEntries ==
    {newEntry(PutToken, key, value) : key \in Keys, value \in Values}
        \cup {newEntry(DelToken, key, <<>>) : key \in Keys}

\* the lines of entries es, one after the other
RECURSIVE LogOf(_)
LogOf(es) == IF Len(es) = 0 THEN <<>> ELSE toBytes(Head(es)) \o LogOf(Tail(es))

InitReplay ==
    /\ db = NoDB
    /\ closer = "idle"
    /\ procs = NoProcs
    /\ repo = NoRepo
    /\ \E es \in SeqsUpTo(LogEntries, MaxEntries) :
           /\ fs = [path |-> [exists |-> TRUE, bytes |-> LogOf(es)], bak |-> NoFile]
           /\ hist = [calls |-> 0, existed |-> FALSE, mutated |-> FALSE,
                      cleared |-> FALSE, failed |-> FALSE, atClose |-> NoBase, kept |-> NoBase,
                      base |-> NoBase, first |-> NoFirst, atClear |-> NoClear,
                      entry |-> NoEntry, entries |-> es,
                      interrupted |-> FALSE, gone |-> {}, delSess |-> {},
                      tampered |-> FALSE]

NextReplay ==
    \/ \E order \in Orders(DOMAIN Replayed(fs.path.bytes).data) : Open(order, "none")
    \/ \E key \in Keys : GetObject(key)
    \/ Close("ok", "ok")
    \/ CloseClear

SpecReplay == InitReplay /\ [][NextReplay]_vars

\* the calls with values of any length
NextLong ==
    \/ \E order \in Orders(DOMAIN Replayed(fs.path.bytes).data) : Open(order, "none")
    \/ \E key \in Keys, value \in Values \cup {LongValue} : PutObject(key, value, "ok")
    \/ \E key \in Keys : GetObject(key)
    \/ \E key \in Keys : DeleteObject(key, "ok")
    \/ Close("ok", "ok")
    \/ CloseClear

SpecLong == Init /\ [][NextLong]_vars

\* the log file can be damaged between a Close and the next Open, and the
\* read of the file can fail in Open
NextDamaged ==
    \/ \E order \in Orders(DOMAIN Replayed(fs.path.bytes).data),
          fault \in {"none", "read"} : Open(order, fault)
    \/ \E key \in Keys, value \in Values : PutObject(key, value, "ok")
    \/ \E key \in Keys : GetObject(key)
    \/ Close("ok", "ok")
    \/ CloseClear
    \/ \E line \in BadLines, at \in LineStarts(fs.path.bytes) : Corrupt(line, at)

SpecDamaged == Init /\ [][NextDamaged]_vars

\* the DB under a TaskRepo
NextRepo ==
    \/ \E order \in Orders(DOMAIN Replayed(fs.path.bytes).data) : Open(order, "none")
    \/ \E task \in Tasks : Insert(task, "ok")
    \/ \E task \in Tasks : Update(task, "ok")
    \/ \E id \in TaskIDs : Get(id)
    \/ \E id \in TaskIDs : Delete(id, "ok")
    \/ Close("ok", "ok")
    \/ CloseClear

SpecRepo == Init /\ [][NextRepo]_vars

\* goroutines call the DB at the same time
NextConc ==
    \/ \E order \in Orders(DOMAIN Replayed(fs.path.bytes).data) : OpenIdle(order)
    \/ \E t \in Goroutines, key \in Keys, value \in Values : Go(t, "put", key, value)
    \/ \E t \in Goroutines, key \in Keys : Go(t, "del", key, <<>>)
    \/ \E t \in Goroutines : Go(t, "close", <<>>, <<>>)
    \/ \E t \in Goroutines : Lock(t)
    \/ \E t \in Goroutines : Check(t)
    \/ \E t \in Goroutines : Mutate(t)
    \/ \E t \in Goroutines : AppendStep(t)
    \/ \E t \in Goroutines : FlushStep(t)
    \/ \E t \in Goroutines : Unlock(t)
    \/ \E t \in Goroutines : ClearStep(t)
    \/ Collect

SpecConc == Init /\ [][NextConc]_vars

\* goroutines call the map TaskRepo at the same time
NextMem ==
    \/ \E t \in Goroutines : MemGo(t, "insert", MemNew)
    \/ \E t \in Goroutines, task \in MemUpdates : MemGo(t, "update", task)
    \/ \E t \in Goroutines, id \in MemIDs : MemGo(t, "delete", NewTask(id, <<>>, <<>>, FALSE))
    \/ \E t \in Goroutines, id \in MemIDs : MemGo(t, "get", NewTask(id, <<>>, <<>>, FALSE))
    \/ \E t \in Goroutines : MemRLock(t)
    \/ \E t \in Goroutines : MemCheck(t)
    \/ \E t \in Goroutines : MemLock(t)
    \/ \E t \in Goroutines : MemWrite(t)
    \/ MemCollect

SpecMem == Init /\ [][NextMem]_vars

\* file operations can fail
NextFault == Calls(OpenFaults \cup ShrinkFaults, {"ok", "fail"})

SpecFault == Init /\ [][NextFault]_vars

(***************************************************************************)
(* Properties.                                                             *)
(***************************************************************************)
\* an open DB: Open returned it and Close has not closed it
IsOpen == db.alive /\ ~db.closed

\* map m holds every pair of map base
HoldsAll(m, base) ==
    \A k \in DOMAIN base : k \in DOMAIN m /\ m[k] = base[k]

\* C1 (durability): a DB opened after a Close that returned nil holds the map
\* the closed DB held at the moment Close was called, when no Clear ran in
\* the closed session without a later Shrink and nothing changed the map
\* since; GetObject returns the closed value of every key of that map.
C1_Durability ==
    (IsOpen /\ hist.atClose.ok) =>
        /\ db.data = hist.atClose.data
        /\ \A k \in DOMAIN hist.atClose.data :
               getObject(db, k) = [val |-> hist.atClose.data[k], err |-> Nil]

\* a reopened DB holds two keys of the closed map, one with a non-empty value
C1_Witness ==
    /\ IsOpen
    /\ hist.atClose.ok
    /\ hist.existed
    /\ DOMAIN hist.atClose.data = Keys
    /\ \E k \in Keys : hist.atClose.data[k] # <<>>

\* C2 (crash safety of compaction): a DB opened after the process stopped in
\* or after the compaction of an Open, before any mutation and before Close,
\* holds every pair that was live in the file before the interrupted Open.
C2_CrashSafety ==
    (IsOpen /\ hist.interrupted /\ hist.base.ok) => HoldsAll(db.data, hist.base.data)

\* C3 (delete persistence): a key deleted and not put again before a Close
\* that returned nil is absent from every DB opened later, until a PutObject
\* inserts it: Has is false, GetObject finds nothing, Size does not count it.
C3_DeletePersistence ==
    IsOpen =>
        /\ \A k \in hist.gone :
               /\ ~has(db, k)
               /\ getObject(db, k).err = ErrNotFound
        /\ size(db) <= Cardinality(Keys \ hist.gone)

\* a DB reopened over a log that holds a deleted key and a live one
C3_Witness ==
    /\ IsOpen
    /\ hist.existed
    /\ hist.gone # {}
    /\ size(db) = 1

\* the map equals the replay of the bytes written to the log: the file's
\* content followed by the bytes still in the writer's buffer
MapEqualsLog ==
    Replayed(fs.path.bytes \o db.writer.buf) = [ok |-> TRUE, data |-> db.data]

\* C4 as stated (memory/log invariant): in every state of an open DB the map
\* equals the replay of the entries written to the log, after any sequence
\* of PutObject, DeleteObject, Clear and Shrink calls.
C4_MapEqualsLogAlways ==
    IsOpen => MapEqualsLog

\* C4 amended: the map of an open DB equals the replay of the entries
\* written to the log when no call of the session returned an I/O error and
\* no Clear ran since the Open or since the last Shrink that returned nil.
C4_MapEqualsLog ==
    (IsOpen /\ ~hist.cleared /\ ~hist.failed) => MapEqualsLog

\* an open DB after three calls that changed the map, holding a key, with
\* entries in the file or the buffer
C4_Witness ==
    /\ IsOpen
    /\ ~hist.cleared
    /\ ~hist.failed
    /\ hist.mutated
    /\ hist.calls >= 3
    /\ db.data # NoData
    /\ Len(fs.path.bytes \o db.writer.buf) > 0

\* the result of a call that returned err and changed neither DB nor files
Untouched(err) == [db |-> db, fs |-> fs, err |-> err]

\* C5 (closed-store contract): on a DB that Close has closed, PutObject,
\* GetObject and DeleteObject return ErrClose for every key, Has returns
\* false for every key, and none of them changes the map, the writer or the
\* files.
C5_ClosedContract ==
    (db.alive /\ db.closed) =>
        \A k \in Keys :
            /\ getObject(db, k).err = ErrClose
            /\ ~has(db, k)
            /\ \A io \in {"ok", "fail"} :
                   /\ deleteObject(db, fs, k, io) = Untouched(ErrClose)
                   /\ \A v \in Values : putObject(db, fs, k, v, io) = Untouched(ErrClose)

\* Close has returned nil on a DB that held a key, and the calls can run
C5_Witness ==
    /\ db.alive
    /\ db.closed
    /\ closer = "idle"
    /\ hist.atClose.ok
    /\ hist.atClose.data # NoData
    /\ \A k \in Keys : ENABLED PutObject(k, <<>>, "ok") /\ ENABLED DeleteObject(k, "ok")

\* C6 (duplicate-key rejection): PutObject of a key an open DB holds returns
\* ErrAlreadyExists and changes nothing: the value of the key, the size, the
\* writer's buffer and the file stay as they were.
C6_DuplicateKey ==
    IsOpen =>
        \A k \in DOMAIN db.data, v \in Values, io \in {"ok", "fail"} :
            putObject(db, fs, k, v, io) = Untouched(ErrAlreadyExists)

\* an open DB holds a key and PutObject can run on it with another value
C6_Witness ==
    /\ IsOpen
    /\ \E k \in DOMAIN db.data, v \in Values :
           /\ v # db.data[k]
           /\ ENABLED PutObject(k, v, "ok")

\* a DeleteObject that returned r removed k and nothing else
RemovedOnly(k, r) ==
    /\ ~has(r.db, k)
    /\ DOMAIN r.db.data = DOMAIN db.data \ {k}
    /\ \A j \in DOMAIN r.db.data : r.db.data[j] = db.data[j]

\* DeleteObject of a key the DB holds: never ErrNotFound, and the key alone
\* is removed when it returns nil
DeletedHeld(k, r) ==
    /\ r.err # ErrNotFound
    /\ r.err = Nil => RemovedOnly(k, r)

\* C7 (NotFound): on an open DB GetObject and DeleteObject return
\* ErrNotFound exactly when the key is not in the map; that DeleteObject
\* changes neither map nor log; a DeleteObject that returns nil makes Has
\* false for its key and leaves every other key's value as it was.
C7_NotFound ==
    IsOpen =>
        \A k \in Keys :
            /\ getObject(db, k).err = ErrNotFound <=> k \notin DOMAIN db.data
            /\ \A io \in {"ok", "fail"} :
                   IF k \in DOMAIN db.data
                   THEN DeletedHeld(k, deleteObject(db, fs, k, io))
                   ELSE deleteObject(db, fs, k, io) = Untouched(ErrNotFound)

\* an open DB holds one key of two, and DeleteObject can run on both
C7_Witness ==
    /\ IsOpen
    /\ \E k \in Keys, j \in Keys :
           /\ k \in DOMAIN db.data
           /\ j \notin DOMAIN db.data
           /\ ENABLED DeleteObject(k, "ok")
           /\ ENABLED DeleteObject(j, "ok")

\* a line that does not split on ',' into three fields, or whose kind token
\* is neither put nor del
NotThreeFields(line) == Len(Split(line)) # 3

UnknownKind(line) == Len(Split(line)) = 3 /\ Split(line)[1] \notin {PutToken, DelToken}

Malformed(line) == NotThreeFields(line) \/ UnknownKind(line)

\* a three-field line with a field that is not base64
Undecodable(line) ==
    /\ Len(Split(line)) = 3
    /\ \E i \in 2..3 : ~DecodeString(Split(line)[i]).ok

\* a line the replay rejects
Rejected(line) ==
    Malformed(line) \/ Undecodable(line) \/ Len(line) >= MaxScanTokenSize

\* the first rejected line of `lines` is at i
FirstRejected(lines, i) ==
    /\ i \in 1..Len(lines)
    /\ Rejected(lines[i])
    /\ \A j \in 1..(i - 1) : ~Rejected(lines[j])

\* Open can be called on an existing file
OpenOfFile == CanOpen /\ fs.path.exists

\* the lines of the file at the path
FileLines == ScanLines(fs.path.bytes)

\* every Open of the path fails with err and returns no DB
OpenFailsWith(err) ==
    \A order \in Orders(DOMAIN Replayed(fs.path.bytes).data) :
        /\ open(fs, order, "none").err = err
        /\ open(fs, order, "none").db = NoDB

\* every Open of the path fails and returns no DB
OpenFails ==
    \A order \in Orders(DOMAIN Replayed(fs.path.bytes).data) :
        /\ open(fs, order, "none").err # Nil
        /\ open(fs, order, "none").db = NoDB

\* C8 as stated (corruption is fatal to open): when a line of an existing
\* file does not split into three fields or has a kind token other than put
\* and del, Open fails with ErrBadFormat and returns no DB.
C8_BadFormatAlways ==
    (OpenOfFile /\ \E i \in 1..Len(FileLines) : Malformed(FileLines[i]))
        => OpenFailsWith(ErrBadFormat)

\* C8 amended: when a line of an existing file does not split into three
\* fields or has a kind token other than put and del, Open fails and returns
\* no DB; the error is ErrBadFormat when that line is the first line the
\* replay rejects and, if it has three fields, both its key and value fields
\* are base64.
C8_BadFormat ==
    OpenOfFile =>
        \A i \in 1..Len(FileLines) :
            Malformed(FileLines[i]) =>
                /\ OpenFails
                /\ (FirstRejected(FileLines, i) /\ ~Undecodable(FileLines[i]))
                       => OpenFailsWith(ErrBadFormat)

\* a file with entries, among them a line that is not of three fields, and
\* entries after it: the Open of it fails with ErrBadFormat
C8_Witness ==
    /\ OpenOfFile
    /\ Len(FileLines) >= 3
    /\ \E i \in 2..(Len(FileLines) - 1) :
           /\ NotThreeFields(FileLines[i])
           /\ \A j \in 1..Len(FileLines) : j # i => ~Rejected(FileLines[j])
    /\ OpenFailsWith(ErrBadFormat)

\* the DB is as the Open of an existing file returned it
OpenedFile == IsOpen /\ hist.existed /\ ~hist.mutated

\* C9 (flush at compaction boundary): when Open has returned a DB for a path
\* whose file existed, the bytes of the file on disk replay to the map of
\* the DB.
C9_FlushedAtOpen ==
    OpenedFile => Replayed(fs.path.bytes) = [ok |-> TRUE, data |-> db.data]

\* the lines are one Put entry for each key of map m with the value of m,
\* and nothing else
RECURSIVE OnePutPerKey(_, _)
OnePutPerKey(lines, m) ==
    IF lines = <<>> THEN m = NoData
    ELSE /\ newEntryFromLine(Head(lines)).err = Nil
         /\ newEntryFromLine(Head(lines)).entry.action = PutToken
         /\ newEntryFromLine(Head(lines)).entry.key \in DOMAIN m
         /\ newEntryFromLine(Head(lines)).entry.value = m[newEntryFromLine(Head(lines)).entry.key]
         /\ OnePutPerKey(Tail(lines), MapDel(m, newEntryFromLine(Head(lines)).entry.key))

\* Close returned nil on a DB that Open had returned for an existing file,
\* with no PutObject, DeleteObject, Clear or Shrink between the two
ClosedAsOpened ==
    /\ ~db.alive \/ db.closed
    /\ hist.atClose.ok
    /\ hist.existed
    /\ ~hist.mutated

\* C10 (minimal log after compaction): after an Open of an existing file and
\* a Close that returned nil with no mutation between them, the file holds
\* one Put entry for each key of the map, with the key's value, no Del entry
\* and no second entry for a key.
C10_MinimalLog ==
    ClosedAsOpened => OnePutPerKey(FileLines, hist.atClose.data)

\* the lines are a Put of a key with a value that map m does not give it, a
\* Del, and one more line
SupersededPutAndDel(lines, m) ==
    /\ Len(lines) = 3
    /\ newEntryFromLine(lines[1]).entry.action = PutToken
    /\ newEntryFromLine(lines[1]).entry.key \in DOMAIN m
    /\ newEntryFromLine(lines[1]).entry.value # m[newEntryFromLine(lines[1]).entry.key]
    /\ newEntryFromLine(lines[2]).entry.action = DelToken

\* such a Close, on a DB of one key whose file (now the backup) held a
\* superseded put, a delete and the live put of that key
C10_Witness ==
    /\ ClosedAsOpened
    /\ Cardinality(DOMAIN hist.atClose.data) = 1
    /\ SupersededPutAndDel(ScanLines(fs.bak.bytes), hist.atClose.data)

\* C11 (compaction idempotence): over a run of Open/Close cycles on the path
\* with no mutation between them, every Open returns the map the first Open
\* of the run returned: the same keys with the same values.
C11_Idempotence ==
    (IsOpen /\ hist.first.ok) => db.data = hist.first.data

\* the third Open of such a run has returned a DB of two keys
C11_Witness ==
    /\ IsOpen
    /\ hist.first.ok
    /\ hist.first.opens = 3
    /\ DOMAIN hist.first.data = Keys

\* the caller writes into a slice it shares with the DB
CallerWrites == \E key \in Keys, i \in 1..2, b \in {NewLine} : WriteSlice(key, i, b)

\* C12 (value isolation): a write of the caller into the slice GetObject
\* returned, or into the slice it passed to PutObject, does not change what
\* GetObject returns for any key.
C12_ValueIsolation ==
    [][CallerWrites => \A k \in Keys : getObject(db', k) = getObject(db, k)]_vars

\* C13 (Clear is memory-only): after a Clear on an open DB the map is empty
\* and the bytes written to the log are those written before the Clear; and
\* after that Clear, a Close that returns nil and an Open of the path, the DB
\* holds again every pair the map held before the Clear, GetObject returning
\* the value PutObject had stored.
C13_ClearMemoryOnly ==
    (IsOpen /\ hist.atClear.ok) =>
        IF hist.atClear.reopened
        THEN /\ db.data = hist.atClear.data
             /\ \A k \in DOMAIN hist.atClear.data :
                    getObject(db, k) = [val |-> hist.atClear.data[k], err |-> Nil]
        ELSE /\ size(db) = 0
             /\ fs.path.bytes \o db.writer.buf = hist.atClear.log

\* a DB reopened after PutObject, Clear and Close holds the pair again
C13_Witness ==
    /\ IsOpen
    /\ hist.atClear.ok
    /\ hist.atClear.reopened
    /\ \E k \in Keys : k \in DOMAIN db.data /\ db.data[k] # <<>>

\* the flush of Close fails on the DB: the buffer holds bytes that cannot be
\* written, or an earlier write of the writer failed
FlushFails(ioFlush) ==
    Flush(db.writer, fs.path.bytes, db.file = "open" /\ ioFlush = "ok").err

\* C14 (Close on flush failure): when the flush fails during Close, Close
\* leaves no open file descriptor and returns the flush error, whether the
\* close of the file fails or not; the file-close error is returned only
\* when the flush succeeded.
C14_CloseFlushFailure ==
    (IsOpen /\ CanLock) =>
        \A ioFlush \in {"ok", "fail"}, ioClose \in {"ok", "fail"} :
            /\ FlushFails(ioFlush) =>
                   /\ close(db, fs, ioFlush, ioClose).err = ErrFlush
                   /\ close(db, fs, ioFlush, ioClose).db.file # "open"
            /\ close(db, fs, ioFlush, ioClose).err = ErrFileClose => ~FlushFails(ioFlush)

\* Close has returned the flush error on a DB whose file was open: the file
\* is closed, bytes are still in the buffer
C14_Witness ==
    /\ IsOpen
    /\ db.mutex = "leaked"
    /\ db.file = "closed"
    /\ db.writer.err
    /\ Len(db.writer.buf) > 0

\* C15 (closed is terminal): on a DB whose closed flag is set, no method
\* clears the flag, and Close returns ErrClose and leaves the DB, its writer
\* and the files as they are: it flushes nothing and closes nothing.
C15_ClosedTerminal ==
    (db.alive /\ db.closed) =>
        /\ clear(db).closed
        /\ \A io \in {"ok", "fail"} :
               /\ \A ioClose \in {"ok", "fail"} :
                      close(db, fs, io, ioClose)
                          = [db |-> db, fs |-> fs, err |-> ErrClose, clear |-> FALSE]
               /\ \A k \in Keys :
                      /\ deleteObject(db, fs, k, io).db.closed
                      /\ \A v \in Values : putObject(db, fs, k, v, io).db.closed
        /\ \A fault \in ShrinkFaults : Shrink(db, fs, <<>>, fault).db.closed

\* Close has closed a DB whose file holds entries, and Close can be called
\* a second time
C15_Witness ==
    /\ db.alive
    /\ db.closed
    /\ closer = "idle"
    /\ Len(fs.path.bytes) > 0
    /\ ENABLED Close("ok", "ok")

\* a PutObject(k, v) of an absent key that returned r: an error is the error
\* of the append, and the map has taken the pair
PutFailureKept(k, v, r) ==
    r.err # Nil =>
        /\ r.err = ErrIO
        /\ has(r.db, k)
        /\ getObject(r.db, k) = [val |-> v, err |-> Nil]
        /\ \A v2 \in Values, io \in {"ok", "fail"} :
               putObject(r.db, r.fs, k, v2, io).err = ErrAlreadyExists

\* a DeleteObject(k) of a held key that returned r: an error is the error of
\* the append, and the map has lost the key
DeleteFailureKept(k, r) ==
    r.err # Nil =>
        /\ r.err = ErrIO
        /\ ~has(r.db, k)

\* C16 (append failure policy): when the append fails inside PutObject or
\* DeleteObject the call returns that error and the map keeps the mutation:
\* after the failed put Has is true and a second PutObject of the key
\* returns ErrAlreadyExists, after the failed delete Has is false.
C16_AppendFailure ==
    IsOpen =>
        \A k \in Keys, io \in {"ok", "fail"} :
            IF k \in DOMAIN db.data
            THEN DeleteFailureKept(k, deleteObject(db, fs, k, io))
            ELSE \A v \in Values : PutFailureKept(k, v, putObject(db, fs, k, v, io))

\* the append of a PutObject of an absent key and of a DeleteObject of a held
\* key fails on the DB, and both calls can run
C16_Witness ==
    /\ IsOpen
    /\ \E k \in Keys, j \in Keys :
           /\ deleteObject(db, fs, k, "fail").err = ErrIO
           /\ putObject(db, fs, j, <<>>, "fail").err = ErrIO
           /\ ENABLED DeleteObject(k, "fail")
           /\ ENABLED PutObject(j, <<>>, "fail")

\* the DB Open returns on a fresh path: open, empty, a new writer on the file
FreshDB ==
    [NoDB EXCEPT !.alive = TRUE, !.file = "open", !.writer = NewWriter]

\* C17 (fresh-path open): Open on a path with no file returns an open DB of
\* size 0 and leaves an empty file at the path; it replays nothing and runs
\* no compaction: the backup path stays as it was, with no file created.
C17_FreshOpen ==
    (CanOpen /\ ~fs.path.exists) =>
        \A order \in {<<>>} \cup Orders(Keys) :
            /\ open(fs, order, "none")
                   = [db |-> FreshDB, fs |-> [fs EXCEPT !.path = EmptyFile], err |-> Nil]
            /\ size(open(fs, order, "none").db) = 0
            /\ open(fs, order, "none").fs.bak = fs.bak

\* Open has returned a DB on a fresh path: an empty file, no backup
C17_Witness ==
    /\ IsOpen
    /\ ~hist.existed
    /\ ~hist.mutated
    /\ db = FreshDB
    /\ fs = [path |-> EmptyFile, bak |-> NoFile]

\* the number of bytes b in s
RECURSIVE Count(_, _)
Count(s, b) ==
    IF s = <<>> THEN 0
    ELSE (IF Head(s) = b THEN 1 ELSE 0) + Count(Tail(s), b)

\* line is the encoding of entry e: two commas, one newline, at the end, and
\* the scanner and the decoder give e back
EncodesAs(e, line) ==
    /\ Count(line, Comma) = 2
    /\ Count(line, NewLine) = 1
    /\ line[Len(line)] = NewLine
    /\ Len(ScanLines(line)) = 1
    /\ newEntryFromLine(ScanLines(line)[1]) = [err |-> Nil, entry |-> e]

\* the map that holds what entry e leaves in an empty map
MapOf(e) ==
    IF e.action = PutToken THEN MapPut(NoData, e.key, e.value) ELSE NoData

\* C18 (codec round-trip): for every entry of kind Put or Del, with any key
\* and any value, the empty value and values with ',' and newline bytes
\* among them, the line toBytes gives has two ',' and one newline, at its
\* end, and newEntryFromLine gives the entry back from it; an Open of the
\* file of that line returns the map the entry leaves.
C18_RoundTrip ==
    /\ EncodesAs(hist.entry, toBytes(hist.entry))
    /\ IsOpen => db.data = MapOf(hist.entry)

\* Open has decoded the line of a Put entry whose value holds a comma, a
\* newline and a high byte
C18_Witness ==
    /\ IsOpen
    /\ hist.entry.action = PutToken
    /\ hist.entry.key # <<>>
    /\ Len(hist.entry.value) = 3
    /\ \A b \in {Comma, NewLine, 255} : Count(hist.entry.value, b) = 1
    /\ db.data = MapOf(hist.entry)

\* an Update of `task` that returned r succeeded and Get returns the task
UpdateReplaced(task, r) ==
    /\ r.err = Nil
    /\ taskRepoGet(r.db, task.ID) = [task |-> task, err |-> Nil]

\* C19 (TaskRepo.Update): Update of a task whose ID is stored returns nil and
\* replaces the stored task: Get of the ID returns the task with the new
\* title, description and done flag.
C19_UpdateReplaces ==
    IsOpen =>
        \A task \in Tasks :
            FormatInt(task.ID) \in DOMAIN db.data
                => UpdateReplaced(task, taskRepoUpdate(db, fs, task, "ok"))

\* C20 (decode errors): when the first line the replay rejects in an
\* existing file is a line of three fields whose key or value field is not
\* base64, Open fails with ErrCannotDecode and returns no DB.
C20_DecodeError ==
    (OpenOfFile /\ \E i \in 1..Len(FileLines) :
                       FirstRejected(FileLines, i) /\ Undecodable(FileLines[i]))
        => OpenFailsWith(ErrCannotDecode)

\* C21 (operations run to completion): every call that has returned, with
\* nil or with an error, has released the DB's lock, so the next call on the
\* DB can take it and return.
C21_LockReleased == db.alive => db.mutex = "free"

\* the bytes written to the log of the DB: the file, then the writer's buffer
LogWritten == fs.path.bytes \o db.writer.buf

\* the goroutines between the update of the map and the append of the entry
Appending == {t \in Goroutines : procs.call[t].pc = "append"}

\* C22 (serialized mutations): under any interleaving of PutObject and
\* DeleteObject calls of several goroutines, the entries are appended to the
\* log in the order in which the map was mutated, at most one call is
\* between its update of the map and its append, and the log with that
\* call's entry replays to the map.
C22_SerializedMutations ==
    IsOpen =>
        /\ Cardinality(Appending) <= 1
        /\ \A t \in Appending :
               LogWritten \o toBytes(entryOf(procs.call[t])) = procs.log
        /\ Appending = {} => LogWritten = procs.log
        /\ Replayed(procs.log) = [ok |-> TRUE, data |-> db.data]

\* a DeleteObject called while its key was absent has removed the key that
\* a PutObject of another goroutine inserted meanwhile; both entries are in
\* the log and a third call is waiting for the lock
C22_Witness ==
    /\ IsOpen
    /\ \E t, u, w \in Goroutines :
           /\ procs.call[t].op = "put" /\ procs.call[t].pc = "done"
           /\ procs.call[t].err = Nil
           /\ procs.call[u].op = "del" /\ procs.call[u].pc = "done"
           /\ procs.call[u].err = Nil /\ ~procs.call[u].fits
           /\ procs.call[u].key = procs.call[t].key
           /\ procs.call[w].pc = "lock"
    /\ Len(ScanLines(LogWritten)) >= 2

\* the goroutines whose call of the round is on key k
CallsOn(k) == {t \in Goroutines : procs.call[t].op \in {"put", "del"} /\ procs.call[t].key = k}

\* the calls on key k in the round are calls of `op` only, each made while
\* the DB was open and k was absent (put) or present (del), all have
\* returned, and no goroutine called Close in the round
Contest(op, k) ==
    /\ CallsOn(k) # {}
    /\ \A t \in CallsOn(k) : /\ procs.call[t].op = op
                             /\ procs.call[t].fits
                             /\ procs.call[t].pc = "done"
    /\ \A t \in Goroutines : procs.call[t].op # "close"

\* goroutine w returned nil and appended its entry, every other call on k
\* returned `lost` and appended nothing
OneWinner(k, w, lost) ==
    /\ procs.call[w].err = Nil
    /\ procs.call[w].wrote
    /\ \A t \in CallsOn(k) \ {w} : procs.call[t].err = lost /\ ~procs.call[t].wrote

\* C23 (exactly one winner): of the PutObject calls that goroutines make at
\* the same time for one absent key, one returns nil and the others
\* ErrAlreadyExists; of the DeleteObject calls for one present key, one
\* returns nil and the others ErrNotFound; one entry is appended for the
\* group.
C23_ExactlyOneWinner ==
    \A k \in Keys :
        /\ Contest("put", k) => \E w \in CallsOn(k) : OneWinner(k, w, ErrAlreadyExists)
        /\ Contest("del", k) => \E w \in CallsOn(k) : OneWinner(k, w, ErrNotFound)

\* three goroutines have called DeleteObject for the same present key, and
\* the goroutine that called last has won
C23_Witness ==
    \E k \in Keys :
        /\ Contest("del", k)
        /\ CallsOn(k) = Goroutines
        /\ OneWinner(k, 3, ErrNotFound)

\* the goroutines whose PutObject or DeleteObject has returned
Mutators == {t \in Goroutines : procs.call[t].op \in {"put", "del"} /\ procs.call[t].pc = "done"}

\* the entry of call c is a line of the file
InFile(c) ==
    \E i \in 1..Len(ScanLines(fs.path.bytes)) :
        ScanLines(fs.path.bytes)[i] \o <<NewLine>> = toBytes(entryOf(c))

\* C24 (mutation racing with Close): no PutObject or DeleteObject is at its
\* append when the DB is closed or its writer is nil; once a Close of the
\* round has flushed and returned nil, every mutation of the round that
\* returned nil has its entry in the file, every one that returned an error
\* has appended nothing, and the file replays to the map as it was when Close
\* flushed; a DB opened afterwards holds that map.
C24_MutationRacingClose ==
    /\ \A t \in Appending : db.alive /\ ~db.closed /\ ~db.writer.nil
    /\ (db.alive /\ db.closed /\ hist.atClose.ok) =>
           /\ fs.path.bytes = procs.log
           /\ Replayed(fs.path.bytes) = [ok |-> TRUE, data |-> hist.atClose.data]
           /\ \A t \in Mutators :
                  IF procs.call[t].err = Nil
                  THEN procs.call[t].wrote /\ InFile(procs.call[t])
                  ELSE ~procs.call[t].wrote
    /\ (IsOpen /\ hist.atClose.ok) => db.data = hist.atClose.data

\* a Close has returned nil while a PutObject called before it returned nil
\* and a PutObject for another key, called while the DB was open, returned
\* ErrClose: the file holds the first entry only
C24_Witness ==
    /\ db.alive /\ db.closed /\ hist.atClose.ok
    /\ \E t, u, w \in Goroutines :
           /\ procs.call[t].op = "close" /\ procs.call[t].pc = "done"
           /\ procs.call[t].err = Nil
           /\ u \in Mutators /\ procs.call[u].op = "put" /\ procs.call[u].err = Nil
           /\ t < u
           /\ w \in Mutators /\ procs.call[w].op = "put" /\ procs.call[w].err = ErrClose
           /\ procs.call[w].fits
           /\ procs.call[w].key # procs.call[u].key
           /\ DOMAIN hist.atClose.data = {procs.call[u].key}

\* the positions of the entries on key k in es
EntriesOn(es, k) == {i \in 1..Len(es) : es[i].key = k}

\* position i holds the last entry on key k in es
LastOn(es, k, i) == i \in EntriesOn(es, k) /\ \A j \in EntriesOn(es, k) : j <= i

\* the map the entries es give, applied from the first to the last to the
\* empty map with Put setting its key and Del removing it: a key is held
\* when the last entry on it is a Put, with the value of that Put
FoldedMap(es) ==
    [k \in {key \in Keys : \E i \in 1..Len(es) :
                               LastOn(es, key, i) /\ es[i].action = PutToken}
       |-> es[CHOOSE i \in 1..Len(es) : LastOn(es, k, i)].value]

\* C25 (replay semantics): the DB that Open returns for a log file of
\* well-formed entries holds the map these entries give when applied in file
\* order to the empty map, a Put overwriting the value of a key already put
\* and a Del of an absent key changing nothing.
C25_ReplaySemantics ==
    IsOpen => db.data = FoldedMap(hist.entries)

\* the DB opened from a file whose entries are a Del of an absent key and two
\* Puts of another key with different values: the key has the second value
C25_Witness ==
    /\ IsOpen
    /\ hist.existed
    /\ Len(hist.entries) = 3
    /\ hist.entries[1].action = DelToken
    /\ hist.entries[2].action = PutToken /\ hist.entries[3].action = PutToken
    /\ hist.entries[2].key = hist.entries[3].key
    /\ hist.entries[1].key # hist.entries[2].key
    /\ hist.entries[2].value # hist.entries[3].value
    /\ db.data = MapPut(NoData, hist.entries[3].key, hist.entries[3].value)

\* C26 (compaction failure is surfaced): when the rename to the .bak path or
\* the creation of the new file fails in the compaction of an Open of a
\* file the replay accepts, Open returns an error and no DB; after a failed
\* creation the .bak file is the file that was at the path, whole.
C26_CompactionFailure ==
    (OpenOfFile /\ Replayed(fs.path.bytes).ok) =>
        \A order \in Orders(DOMAIN Replayed(fs.path.bytes).data) :
            /\ open(fs, order, "rename").err # Nil
            /\ open(fs, order, "rename").db = NoDB
            /\ open(fs, order, "create").err # Nil
            /\ open(fs, order, "create").db = NoDB
            /\ open(fs, order, "create").fs.bak = fs.path

\* an Open has failed at the creation of the new file: no DB, no file at the
\* path, and the .bak file holds the two entries the log had
C26_Witness ==
    /\ ~db.alive
    /\ ~fs.path.exists
    /\ fs.bak.exists
    /\ Replayed(fs.bak.bytes).ok
    /\ DOMAIN Replayed(fs.bak.bytes).data = Keys

\* a Shrink of a DB with map m that returned r returned nil and left the map
ShrinkKeeps(m, r) == r.err = Nil /\ r.db.data = m

\* a Close that returned c returned nil and left a file that replays to map m
CloseLeaves(m, c) ==
    /\ c.err = Nil
    /\ Replayed(c.fs.path.bytes) = [ok |-> TRUE, data |-> m]

\* C27 (Shrink preserves live state): a Shrink of an open DB, whatever the
\* writer's buffer still holds of the entries of earlier PutObject and
\* DeleteObject calls, leaves the map as it is, and the file a Close right
\* after it leaves at the path replays to that map.
C27_ShrinkPreserves ==
    (IsOpen /\ CanLock) =>
        \A order \in Orders(DOMAIN db.data) :
            /\ ShrinkKeeps(db.data, Shrink(db, fs, order, "none"))
            /\ CloseLeaves(db.data,
                           close(Shrink(db, fs, order, "none").db,
                                 Shrink(db, fs, order, "none").fs, "ok", "ok"))

\* Shrink has run in the first session of the path after a PutObject and a
\* DeleteObject whose entries were in the buffer: the old file, now the .bak
\* file, is empty, and the log is the one entry of the one live key
C27_Witness ==
    /\ IsOpen
    /\ ~hist.existed
    /\ fs.bak = EmptyFile
    /\ hist.delSess # {}
    /\ hist.calls = 4
    /\ size(db) = 1
    /\ Len(ScanLines(LogWritten)) = 1

\* C28 (Size and Has agree with the map): on an open DB Size returns the
\* number of keys for which Has returns true, Has returns true for exactly
\* the keys for which GetObject returns no error, and a PutObject that
\* returns ErrAlreadyExists or a DeleteObject that returns ErrNotFound leaves
\* what Size returns unchanged.
C28_SizeHasAgree ==
    IsOpen =>
        /\ size(db) = Cardinality({k \in Keys : has(db, k)})
        /\ \A k \in Keys :
               /\ has(db, k) <=> getObject(db, k).err = Nil
               /\ \A io \in {"ok", "fail"} :
                      /\ deleteObject(db, fs, k, io).err = ErrNotFound
                             => size(deleteObject(db, fs, k, io).db) = size(db)
                      /\ \A v \in Values :
                             putObject(db, fs, k, v, io).err = ErrAlreadyExists
                                 => size(putObject(db, fs, k, v, io).db) = size(db)

\* an open DB after a PutObject and a DeleteObject, holding one key with the
\* empty value while the other key is absent: a PutObject of the first
\* returns ErrAlreadyExists and a DeleteObject of the second ErrNotFound
C28_Witness ==
    /\ IsOpen
    /\ CanLock
    /\ hist.delSess # {}
    /\ size(db) = 1
    /\ \E k \in Keys : has(db, k) /\ getObject(db, k) = [val |-> <<>>, err |-> Nil]
    /\ \E k \in Keys : ~has(db, k) /\ deleteObject(db, fs, k, "ok").err = ErrNotFound

\* the file f replays to a map that holds every pair of map m
FileHolds(f, m) ==
    f.exists /\ Replayed(f.bytes).ok /\ HoldsAll(Replayed(f.bytes).data, m)

\* C29 (the backup is never the victim): while only Opens, Closes and stops
\* of the process follow a Close that returned nil, the file at the path or
\* the .bak file replays to a map that holds every pair the map held at
\* that Close.
C29_BackupKept ==
    hist.kept.ok => FileHolds(fs.path, hist.kept.data) \/ FileHolds(fs.bak, hist.kept.data)

\* Close has returned nil on a DB whose calls all returned nil or
\* ErrAlreadyExists or ErrNotFound, and the file was not touched from outside
ClosedOwnOutput ==
    /\ db.alive /\ db.closed /\ closer = "idle"
    /\ ~hist.failed
    /\ ~hist.tampered

\* C30 (the store reloads its own output): the file that PutObject and
\* DeleteObject calls and a Close, all returning nil, have written is
\* accepted by the next Open, whatever the length of the values.
C30_ReloadsOwnOutput ==
    ClosedOwnOutput =>
        \A order \in Orders(DOMAIN Replayed(fs.path.bytes).data) :
            open(fs, order, "none").err = Nil

\* an Open that returned r failed and left the files f as they were
FailedUntouched(f, r) == r.err # Nil => (r.db = NoDB /\ r.fs = f)

\* C31 (a failed Open changes nothing on disk): an Open of an existing file
\* that fails in the replay, on a line that is not an entry, on a field
\* that is not base64 or on a read error, leaves the file at the path with
\* the bytes it had and the .bak file as it was, absent or not.
C31_FailedOpenFrame ==
    OpenOfFile =>
        \A order \in Orders(DOMAIN Replayed(fs.path.bytes).data) :
            /\ FailedUntouched(fs, open(fs, order, "none"))
            /\ open(fs, order, "read").err # Nil
            /\ FailedUntouched(fs, open(fs, order, "read"))

\* an Open has failed on a damaged file that holds an entry, while a .bak
\* file with an entry exists: no DB, both files still hold their entries
C31_Witness ==
    /\ ~db.alive
    /\ hist.tampered
    /\ OpenFails
    /\ \E i \in 1..Len(FileLines) : ~Rejected(FileLines[i])
    /\ fs.bak.exists
    /\ Replayed(fs.bak.bytes).data # NoData

\* C32 (closed implies empty for every observer): whenever the closed flag
\* of the DB is set and a Size call of another goroutine can take the lock,
\* that call returns 0.
C32_ClosedEmpty ==
    (db.alive /\ db.closed /\ CanLock) => size(db) = 0

\* the goroutines whose Delete of the round has returned nil
MemDeleted == {t \in Goroutines : /\ repo.call[t].op = "delete"
                                  /\ repo.call[t].pc = "done"
                                  /\ repo.call[t].err = Nil}

\* C33 (a deleted task stays deleted): once a Delete(id) of the map TaskRepo
\* has returned nil, Get(id) returns ErrTaskNotFound, whatever Update calls
\* for that ID run at the same time (Insert never gives an ID a second
\* time).
C33_DeletedStaysDeleted ==
    \A t \in MemDeleted :
        memGet(repo.data, repo.call[t].task.ID).err = ErrTaskNotFound

\* the calls of the round for ID id are Deletes only, each made while the ID
\* was in the map, and all have returned
MemContest(id) ==
    /\ \E t \in Goroutines : repo.call[t].op = "delete" /\ repo.call[t].task.ID = id
    /\ \A t \in Goroutines :
           repo.call[t].op # "none" =>
               /\ repo.call[t].op = "delete"
               /\ repo.call[t].task.ID = id
               /\ repo.call[t].fits
               /\ repo.call[t].pc = "done"

\* C34 (one Delete wins): of the Delete(id) calls that goroutines make at the
\* same time for one ID the map TaskRepo holds, one returns nil and every
\* other returns ErrTaskNotFound.
C34_OneDeleteWins ==
    \A id \in MemIDs :
        MemContest(id) =>
            \E w \in Goroutines :
                /\ repo.call[w].op = "delete" /\ repo.call[w].err = Nil
                /\ \A t \in Goroutines \ {w} :
                       repo.call[t].op = "delete" => repo.call[t].err = ErrTaskNotFound

====
